---- MODULE Spec2Model ----
(***************************************************************************)
(* Verification model of system-audio-share-onlinux:                       *)
(*   - WaveformWidget (audio_monitor.py): the bounded amplitude history    *)
(*   - AudioMixerBase and its two views (outputs-to-inputs-adv.py): the    *)
(*     guard timers, mixer create/delete, the monitor thread and the view  *)
(*     switch                                                              *)
(*   - AudioMixerGUI (outputs-to-inputs.py): the connect / disconnect      *)
(*     state machine and its worker threads                                *)
(*   - AudioMonitor and AudioWaveformMonitor (audio_monitor.py): the       *)
(*     capture child, its pipe and the tick timer                          *)
(* Each part has its own specifications (SpecWave; SpecMixerGuard,         *)
(* SpecGuards and SpecMonitor; SpecConn; SpecRead and SpecCapture); the    *)
(* variables of the other parts stay at their initial values.              *)
(***************************************************************************)
EXTENDS Integers, Sequences, FiniteSets, TLC

VARIABLES
    max_history,    \* WaveformWidget.max_history
    history,        \* WaveformWidget.history
    pushed,         \* history variable: every amplitude appended since the last clear
    adv,            \* the advanced GUI: windows, GLib sources, threads, processes
    conn,           \* the simple GUI: AudioMixerGUI and its workers
    mon,            \* an AudioWaveformMonitor with its AudioMonitor and waveform
    pg,             \* a monitor process, its process group and its teardown
    mute,           \* the mute button of either GUI and the mixer's sink
    listing,        \* one call of AudioMonitor.get_available_sources
    query           \* one call of AudioMixerGUI.get_mute_state

vars == <<max_history, history, pushed, adv, conn, mon, pg, mute, listing, query>>

\* the variables of the operating-system side
sysVars == <<pg, mute, listing, query>>

\* the variables of the pactl calls
cmdVars == <<mute, listing, query>>

waveVars == <<max_history, history, pushed>>

\* ------------------------------------------------------------------ bounds

MaxHistory == 3     \* largest history_length tried
MaxBatch == 2       \* longest sample batch handed to set_samples
MaxPush == 5        \* appends followed between two clears

None == 0

Min(a, b) == IF a < b THEN a ELSE b

RECURSIVE GCD(_, _)
GCD(a, b) == IF b = 0 THEN a ELSE GCD(b, a % b)

RECURSIVE SumSq(_)
SumSq(s) == IF s = <<>> THEN 0 ELSE Head(s) * Head(s) + SumSq(Tail(s))

\* ======================================================== WaveformWidget

\* Normalised samples; read_samples yields values in [-1, 1].
SampleValues == {-1, 0, 1}

Batches == UNION {[1..n -> SampleValues] : n \in 0..MaxBatch}

\* rms = (sum(s*s)/len) ** 0.5, kept exact: the amplitude sqrt(num/den) is
\* represented by the fraction num/den in lowest terms.
Rms(samples) ==
    LET ss == SumSq(samples)
        n == Len(samples)
        g == GCD(ss, n)
    IN  <<ss \div g, n \div g>>

RECURSIVE PopFrontWhileOver(_, _)
PopFrontWhileOver(h, limit) ==
    IF Len(h) > limit THEN PopFrontWhileOver(Tail(h), limit) ELSE h

RECURSIVE PopBackWhileOver(_, _)
PopBackWhileOver(h, limit) ==
    IF Len(h) > limit THEN PopBackWhileOver(SubSeq(h, 1, Len(h) - 1), limit) ELSE h

\* set_samples with the eviction taken from the wrong end (pop() for pop(0)).
set_samples_pop_last(h, samples, limit) ==
    IF samples = <<>> THEN h
    ELSE PopBackWhileOver(Append(h, Rms(samples)), limit)

\* WaveformWidget.set_samples: the new history
set_samples(h, samples, limit) ==
    IF samples = <<>> THEN h
    ELSE PopFrontWhileOver(Append(h, Rms(samples)), limit)

SetSamples ==
    \E samples \in Batches :
        /\ Len(pushed) < MaxPush
        /\ history' = set_samples(history, samples, max_history)
        /\ pushed' = IF samples = <<>> THEN pushed ELSE Append(pushed, Rms(samples))
        /\ UNCHANGED <<max_history, adv, conn, mon, sysVars>>

ClearHistory ==
    /\ history' = <<>>
    /\ pushed' = <<>>
    /\ UNCHANGED <<max_history, adv, conn, mon, sysVars>>

\* ============================================================ AudioMonitor

MaxSamples == 2     \* largest num_samples asked of read_samples

\* most bytes the capture child leaves unread in its pipe
MaxPipe == 2 * MaxSamples + 1

\* Values of the bytes parec writes that are tried.
ByteValues == {0, 1, 255}

Pipes == UNION {[1..n -> ByteValues] : n \in 0..MaxPipe}

\* Names of capture sources; the empty string stands for None.
Devices == {"AudioMixer_Virtual.monitor", "default.monitor"}

Zeros(n) == [i \in 1..n |-> 0]

\* The state of an AudioWaveformMonitor, its AudioMonitor and its waveform:
\*   buffer_size, timeout_id, source, is_monitoring   the fields of that name
\*   process      AudioMonitor.process: None or the pid of the child
\*   device       the --device argument that child was started with
\*   nonblock     O_NONBLOCK is set on process.stdout
\*   pipe         the bytes written to process.stdout and not yet read
\*   offset       history: the parity of the number of bytes read from
\*                process.stdout since the child was started
\*   children     the pids of the capture children that are alive
\*   stalled      the child of process does not act on SIGTERM (it is
\*                stopped, or stuck in the kernel)
\*   hung         the main thread is inside process.wait(), which has no
\*                timeout, and the child does not end
\*   sources      the ids of the registered GLib timeout sources
\*   history, max_history   the fields of the WaveformWidget
\*   origin       history: the device each entry of history was read from
\*   ret          history: the last call of read_samples, with the number
\*                of bytes that were available to it and the offset in the
\*                stream (its parity) at which it began to read
MonInitial(source) ==
    [buffer_size |-> MaxSamples,
     timeout_id |-> None,
     source |-> source,
     is_monitoring |-> FALSE,
     process |-> None,
     device |-> "",
     nonblock |-> FALSE,
     pipe |-> <<>>,
     offset |-> 0,
     children |-> {},
     stalled |-> FALSE,
     hung |-> FALSE,
     sources |-> {},
     history |-> <<>>,
     max_history |-> MaxHistory,
     origin |-> <<>>,
     ret |-> [called |-> FALSE, n |-> 0, avail |-> 0, at |-> 0, device |-> "",
              samples |-> <<>>, blocked |-> FALSE]]

\* the smallest id not in use (a pid, or a GLib source id)
FreshId(used) ==
    CHOOSE i \in 1..(Cardinality(used) + 1) :
        i \notin used /\ \A j \in 1..(i - 1) : j \in used

\* AudioMonitor.stop_capture: terminate(), then wait() for as long as the
\* child takes to end
stop_capture(st) ==
    IF st.process # None
    THEN IF st.process \in st.children /\ st.stalled
         THEN [st EXCEPT !.hung = TRUE]
         ELSE [st EXCEPT !.children = @ \ {st.process},
                         !.process = None,
                         !.device = "",
                         !.nonblock = FALSE,
                         !.stalled = FALSE,
                         !.pipe = <<>>,
                         !.offset = 0]
    ELSE st

\* AudioMonitor.start_capture; popen tells whether parec could be started
start_capture(st, source_name, popen) ==
    LET s1 == IF st.process # None THEN stop_capture(st) ELSE st
        pid == FreshId(s1.children)
    IN  IF s1.hung THEN s1
        ELSE IF popen
        THEN [s1 EXCEPT !.process = pid,
                        !.children = @ \cup {pid},
                        !.device = source_name,
                        !.nonblock = TRUE,
                        !.pipe = <<>>,
                        !.offset = 0]
        ELSE s1

\* a 16-bit word read as a signed integer
Signed16(u) == IF u >= 32768 THEN u - 65536 ELSE u

\* struct.unpack(f'{n}h', data) on a little-endian machine, each value
\* then divided by 32768.0: the samples are kept as their numerators
Unpack(data) ==
    [i \in 1..(Len(data) \div 2) |->
        Signed16(data[2 * i - 1] + 256 * data[2 * i])]

ReadOutcomes == {"ok", "error"}

\* read_samples that unpacks the samples of a short read instead of
\* returning silence
read_samples_partial(st, num_samples, outcome) ==
    LET k == Min(2 * num_samples, Len(st.pipe))
        data == SubSeq(st.pipe, 1, k)
        rest == SubSeq(st.pipe, k + 1, Len(st.pipe))
    IN  IF st.process = None
        THEN [samples |-> Zeros(num_samples), st |-> st, blocked |-> FALSE]
        ELSE IF outcome = "error"
        THEN [samples |-> Zeros(num_samples), st |-> st, blocked |-> FALSE]
        ELSE [samples |-> IF data = <<>> THEN Zeros(num_samples)
                          ELSE Unpack(data),
              st |-> [st EXCEPT !.pipe = rest,
                                !.offset = (@ + k) % 2],
              blocked |-> /\ ~st.nonblock
                          /\ num_samples > 0
                          /\ st.pipe = <<>>
                          /\ st.process \in st.children]

\* AudioMonitor.read_samples: the samples returned, the state left (the
\* bytes read are gone from the pipe), and whether the read had to wait.
\* outcome "error" is a read that raises.
read_samples(st, num_samples, outcome) ==
    LET k == Min(2 * num_samples, Len(st.pipe))
        data == SubSeq(st.pipe, 1, k)
        rest == SubSeq(st.pipe, k + 1, Len(st.pipe))
    IN  IF st.process = None
        THEN [samples |-> Zeros(num_samples), st |-> st, blocked |-> FALSE]
        ELSE IF outcome = "error"
        THEN [samples |-> Zeros(num_samples), st |-> st, blocked |-> FALSE]
        ELSE [samples |-> IF data = <<>> \/ Len(data) < 2 * num_samples
                          THEN Zeros(num_samples)
                          ELSE Unpack(data),
              st |-> [st EXCEPT !.pipe = rest,
                                !.offset = (@ + k) % 2],
              blocked |-> /\ ~st.nonblock
                          /\ num_samples > 0
                          /\ st.pipe = <<>>
                          /\ st.process \in st.children]

\* the state after read_samples, with the call recorded in ret
Read(st, num_samples, outcome) ==
    LET r == read_samples(st, num_samples, outcome)
    IN  [r.st EXCEPT !.ret = [called |-> TRUE,
                              n |-> num_samples,
                              avail |-> IF st.process = None THEN 0
                                        ELSE Len(st.pipe),
                              at |-> st.offset,
                              device |-> st.device,
                              samples |-> r.samples,
                              blocked |-> r.blocked]]

\* a caller asks for num_samples samples
ReadSamples ==
    \E num_samples \in 0..MaxSamples, outcome \in ReadOutcomes :
        /\ mon' = Read(mon, num_samples, outcome)
        /\ UNCHANGED <<waveVars, adv, conn, sysVars>>

\* ==================================================== AudioWaveformMonitor

\* What one call of start meets outside the program: the name
\* get_default_sink_monitor returns ("" for None) and whether Popen starts
\* parec.
StartIOs == [default : {"", "default.monitor"}, popen : BOOLEAN]

\* GLib.timeout_add(50, self._update_waveform): the state and the new id
mon_timeout_add(st) ==
    LET id == FreshId(st.sources)
    IN  [st EXCEPT !.sources = @ \cup {id}, !.timeout_id = id]

\* start without its check of is_monitoring
start_unguarded(st, io) ==
    LET s1 == IF st.source = "" THEN [st EXCEPT !.source = io.default] ELSE st
    IN  IF s1.source = "" THEN s1
        ELSE LET s2 == start_capture(s1, s1.source, io.popen)
             IN  IF s2.hung \/ ~io.popen THEN s2
                 ELSE [mon_timeout_add(s2) EXCEPT !.is_monitoring = TRUE]

\* AudioWaveformMonitor.start; when Popen raises, start ends there
start(st, io) ==
    IF st.is_monitoring THEN st
    ELSE LET s1 == IF st.source = "" THEN [st EXCEPT !.source = io.default]
                   ELSE st
         IN  IF s1.source = "" THEN s1
             ELSE LET s2 == start_capture(s1, s1.source, io.popen)
                  IN  IF s2.hung \/ ~io.popen THEN s2
                      ELSE [mon_timeout_add(s2) EXCEPT !.is_monitoring = TRUE]

\* stop without its call of GLib.source_remove
stop_keeps_timer(st) ==
    IF ~st.is_monitoring THEN st
    ELSE LET s2 == stop_capture(st)
         IN  IF s2.hung THEN s2 ELSE [s2 EXCEPT !.is_monitoring = FALSE]

\* AudioWaveformMonitor.stop
stop(st) ==
    IF ~st.is_monitoring THEN st
    ELSE LET s1 == IF st.timeout_id # None
                   THEN [st EXCEPT !.sources = @ \ {st.timeout_id},
                                   !.timeout_id = None]
                   ELSE st
             s2 == stop_capture(s1)
         IN  IF s2.hung THEN s2 ELSE [s2 EXCEPT !.is_monitoring = FALSE]

\* AudioWaveformMonitor.toggle
toggle(st, io) == IF st.is_monitoring THEN stop(st) ELSE start(st, io)

\* WaveformWidget.clear_history on the waveform of the monitor
clear_history(st) == [st EXCEPT !.history = <<>>, !.origin = <<>>]

\* set_source without its call of clear_history
set_source_keep_history(st, source_name, io) ==
    LET s1 == IF st.is_monitoring THEN stop(st) ELSE st
        s2 == [s1 EXCEPT !.source = source_name]
    IN  IF s1.hung THEN s1
        ELSE IF st.is_monitoring THEN start(s2, io) ELSE s2

\* AudioWaveformMonitor.set_source
set_source(st, source_name, io) ==
    LET s1 == IF st.is_monitoring THEN stop(st) ELSE st
        s2 == clear_history([s1 EXCEPT !.source = source_name])
    IN  IF s1.hung THEN s1
        ELSE IF st.is_monitoring THEN start(s2, io) ELSE s2

\* _update_waveform returning False, which removes the timer, when the read
\* raises
update_waveform_stop_on_error(st, outcome) ==
    LET s1 == Read(st, st.buffer_size, outcome)
        samples == s1.ret.samples
    IN  IF st.process # None /\ outcome = "error"
        THEN [s1 EXCEPT !.sources = @ \ {st.timeout_id}]
        ELSE IF samples = <<>> THEN s1
        ELSE [s1 EXCEPT
                !.history = set_samples(@, samples, st.max_history),
                !.origin = PopFrontWhileOver(Append(@, st.device),
                                             st.max_history)]

\* AudioWaveformMonitor._update_waveform: one tick of the timer
update_waveform(st, outcome) ==
    LET s1 == Read(st, st.buffer_size, outcome)
        samples == s1.ret.samples
    IN  IF samples = <<>> THEN s1
        ELSE [s1 EXCEPT
                !.history = set_samples(@, samples, st.max_history),
                !.origin = PopFrontWhileOver(Append(@, st.device),
                                             st.max_history)]

\* The handlers below run on the main thread: none runs while it is inside
\* process.wait().
MonStart ==
    \E io \in StartIOs :
        /\ ~mon.hung
        /\ mon' = start(mon, io)
        /\ UNCHANGED <<waveVars, adv, conn, sysVars>>

MonStop ==
    /\ ~mon.hung
    /\ mon' = stop(mon)
    /\ UNCHANGED <<waveVars, adv, conn, sysVars>>

MonToggle ==
    \E io \in StartIOs :
        /\ ~mon.hung
        /\ mon' = toggle(mon, io)
        /\ UNCHANGED <<waveVars, adv, conn, sysVars>>

\* set_source, called by the owner of the monitor (finish_connection with
\* the mixer's monitor, finish_disconnection with the default one)
MonSetSource ==
    \E source_name \in Devices, io \in StartIOs :
        /\ ~mon.hung
        /\ mon' = set_source(mon, source_name, io)
        /\ UNCHANGED <<waveVars, adv, conn, sysVars>>

\* AudioWaveformMonitor.cleanup
MonCleanup ==
    /\ ~mon.hung
    /\ mon' = stop(mon)
    /\ UNCHANGED <<waveVars, adv, conn, sysVars>>

\* a registered timeout source fires
MonTick ==
    /\ ~mon.hung
    /\ mon.sources # {}
    /\ \E outcome \in ReadOutcomes : mon' = update_waveform(mon, outcome)
    /\ UNCHANGED <<waveVars, adv, conn, sysVars>>

\* the capture child writes a byte; in these runs it is always 255
CaptureWrites ==
    /\ ~mon.hung
    /\ mon.process \in mon.children
    /\ Len(mon.pipe) < MaxPipe
    /\ mon' = [mon EXCEPT !.pipe = Append(@, 255)]
    /\ UNCHANGED <<waveVars, adv, conn, sysVars>>

\* the capture child ends by itself
CaptureExits ==
    /\ ~mon.hung
    /\ mon.process \in mon.children
    /\ mon' = [mon EXCEPT !.children = @ \ {mon.process}, !.stalled = FALSE]
    /\ UNCHANGED <<waveVars, adv, conn, sysVars>>

\* the capture child stops acting on SIGTERM
CaptureStalls ==
    /\ ~mon.hung
    /\ mon.process \in mon.children
    /\ ~mon.stalled
    /\ mon' = [mon EXCEPT !.stalled = TRUE]
    /\ UNCHANGED <<waveVars, adv, conn, sysVars>>

\* =========================================== AudioMixerBase (advanced GUI)

MaxWindows == 3     \* windows created over a run (view switches + 1)
MaxViews == 2       \* the same, in the runs where both guards are used
MaxThreads == 2     \* monitor threads started over a run
MaxProcs == 2       \* monitor processes spawned over a run

Windows == 1..MaxWindows

\* Positions of the two Gtk.Scale widgets that are tried (both start at 100).
ScaleValues == {75, 100}

\* Active ids of mic_combo: load_microphone_sources always selects the first.
MicIds == {"@DEFAULT_SOURCE@"}

\* External outcomes of one guard callback: what the widgets of a destroyed
\* window yield when read. The results of the pactl commands are no input:
\* the guards drop the value run_command returns.
IOs == [dead_scale : ScaleValues \cup {0}, dead_combo : MicIds \cup {""}]

\* AudioMixerBase.__init__ plus the widgets the views build
AdvInitial(exists) ==
    [ nwin |-> 1,
      exited |-> FALSE,
      destroyed |-> [w \in Windows |-> FALSE],
      switching_mode |-> [w \in Windows |-> FALSE],
      mixer_exists |-> [w \in Windows |-> (w = 1 /\ exists)],
      is_monitoring |-> [w \in Windows |-> FALSE],
      is_muted |-> [w \in Windows |-> FALSE],
      mic_guard_active |-> [w \in Windows |-> FALSE],
      mic_guard_timer |-> [w \in Windows |-> None],
      mixer_guard_active |-> [w \in Windows |-> FALSE],
      mixer_guard_timer |-> [w \in Windows |-> None],
      monitor_process |-> [w \in Windows |-> None],
      mixer_guard_switch |-> [w \in Windows |-> FALSE],
      mic_switch |-> [w \in Windows |-> FALSE],
      mixer_lock_scale |-> [w \in Windows |-> 100],
      mic_scale |-> [w \in Windows |-> 100],
      mic_combo |-> [w \in Windows |-> "@DEFAULT_SOURCE@"],
      mic_combo_sensitive |-> [w \in Windows |-> TRUE],
      vol_sensitive |-> [w \in Windows |-> (w = 1 /\ exists)],
      sens |-> [w \in Windows |->
                  [create |-> ~(w = 1 /\ exists), delete |-> (w = 1 /\ exists),
                   start |-> (w = 1 /\ exists), stop |-> FALSE,
                   mixer_guard_switch |-> (w = 1 /\ exists)]],
      sources |-> {},           \* live GLib timeout sources
      next_id |-> 1,            \* next GLib source id
      idle |-> <<>>,            \* pending GLib.idle_add callbacks, FIFO
      threads |-> <<>>,         \* monitor threads
      procs |-> <<>>,           \* monitor processes
      log |-> <<>> ]            \* history: enforcement passes of the step just taken

\* Start of a step: the passes of the previous step are dropped.
Begin(st) == [st EXCEPT !.log = <<>>]

GuardActive(st, w, g) ==
    IF g = "mixer" THEN st.mixer_guard_active[w] ELSE st.mic_guard_active[w]

\* History: an enforcement pass issued cmds.
Pass(st, w, g, cmds) ==
    [st EXCEPT !.log = Append(@, [w |-> w, g |-> g, cmds |-> cmds])]

\* GLib.timeout_add: a new source with a fresh id
timeout_add(st, w, g) ==
    [st EXCEPT !.sources = @ \cup {[id |-> st.next_id, w |-> w, g |-> g]},
               !.next_id = @ + 1]

\* GLib.source_remove: removing an id that is not live changes nothing
source_remove(st, id) ==
    [st EXCEPT !.sources = {s \in @ : s.id # id}]

\* set_volume_controls_sensitive of both views (btn_up, btn_dn, btn_mute)
set_volume_controls_sensitive(st, w, sensitive) ==
    [st EXCEPT !.vol_sensitive[w] =
        IF st.mixer_guard_active[w] THEN FALSE ELSE sensitive]

\* update_status_display of both views
update_status_display(st, w) ==
    set_volume_controls_sensitive(
        [st EXCEPT !.sens[w] =
            [create |-> ~st.mixer_exists[w],
             delete |-> st.mixer_exists[w] /\ ~st.is_monitoring[w],
             start |-> st.mixer_exists[w] /\ ~st.is_monitoring[w],
             stop |-> st.is_monitoring[w],
             mixer_guard_switch |-> st.mixer_exists[w]]],
        w, st.mixer_exists[w])

\* A widget value read by a callback: what a destroyed window's widget
\* yields is not defined by the program, it is the outcome io.dead.
WidgetRead(st, w, value, dead) ==
    IF st.destroyed[w] THEN dead ELSE value

\* AudioMixerBase.enforce_mixer_state
enforce_mixer_state(st, w, io) ==
    IF ~st.mixer_guard_active[w] \/ ~st.mixer_exists[w]
    THEN [st |-> st, ret |-> FALSE]
    ELSE LET target == WidgetRead(st, w, st.mixer_lock_scale[w], io.dead_scale)
             cmds == << [cmd |-> "set-sink-mute", dev |-> "AudioMixer_Virtual",
                         arg |-> 0],
                        [cmd |-> "set-sink-volume", dev |-> "AudioMixer_Virtual",
                         arg |-> target] >>
         IN  [st |-> [Pass(st, w, "mixer", cmds) EXCEPT !.is_muted[w] = FALSE],
              ret |-> TRUE]

\* AudioMixerBase.on_mixer_guard_toggled
on_mixer_guard_toggled(st, w, state, io) ==
    LET s1 == [st EXCEPT !.mixer_guard_active[w] = state]
    IN  IF state
        THEN LET s2 == [timeout_add(s1, w, "mixer")
                            EXCEPT !.mixer_guard_timer[w] = s1.next_id]
                 s3 == enforce_mixer_state(s2, w, io).st
             IN  set_volume_controls_sensitive(s3, w, FALSE)
        ELSE LET s2 == IF s1.mixer_guard_timer[w] # None
                       THEN source_remove(s1, s1.mixer_guard_timer[w])
                       ELSE s1
             IN  set_volume_controls_sensitive(s2, w, TRUE)

\* enforce_mic_state without its check of mic_guard_active
enforce_mic_state_unguarded(st, w, io) ==
    LET mic == WidgetRead(st, w, st.mic_combo[w], io.dead_combo)
        vol == WidgetRead(st, w, st.mic_scale[w], io.dead_scale)
        cmds == << [cmd |-> "set-source-mute", dev |-> mic, arg |-> 0],
                   [cmd |-> "set-source-volume", dev |-> mic, arg |-> vol] >>
    IN  IF mic = ""
        THEN [st |-> st, ret |-> TRUE]
        ELSE [st |-> Pass(st, w, "mic", cmds), ret |-> TRUE]

\* AudioMixerBase.enforce_mic_state
enforce_mic_state(st, w, io) ==
    IF ~st.mic_guard_active[w]
    THEN [st |-> st, ret |-> FALSE]
    ELSE LET mic == WidgetRead(st, w, st.mic_combo[w], io.dead_combo)
             vol == WidgetRead(st, w, st.mic_scale[w], io.dead_scale)
             cmds == << [cmd |-> "set-source-mute", dev |-> mic,
                         arg |-> 0],
                        [cmd |-> "set-source-volume", dev |-> mic,
                         arg |-> vol] >>
         IN  IF mic = ""
             THEN [st |-> st, ret |-> TRUE]
             ELSE [st |-> Pass(st, w, "mic", cmds), ret |-> TRUE]

\* on_mic_guard_toggled whose disarm branch also removes the timer of the
\* mixer guard
on_mic_guard_toggled_both_timers(st, w, state, io) ==
    LET s1 == [st EXCEPT !.mic_guard_active[w] = state]
    IN  IF state
        THEN LET s2 == [timeout_add(s1, w, "mic")
                            EXCEPT !.mic_guard_timer[w] = s1.next_id]
                 s3 == enforce_mic_state(s2, w, io).st
             IN  [s3 EXCEPT !.mic_combo_sensitive[w] = FALSE]
        ELSE LET s2 == IF s1.mic_guard_timer[w] # None
                       THEN source_remove(s1, s1.mic_guard_timer[w])
                       ELSE s1
                 s3 == IF s2.mixer_guard_timer[w] # None
                       THEN source_remove(s2, s2.mixer_guard_timer[w])
                       ELSE s2
             IN  [s3 EXCEPT !.mic_combo_sensitive[w] = TRUE]

\* AudioMixerBase.on_mic_guard_toggled
on_mic_guard_toggled(st, w, state, io) ==
    LET s1 == [st EXCEPT !.mic_guard_active[w] = state]
    IN  IF state
        THEN LET s2 == [timeout_add(s1, w, "mic")
                            EXCEPT !.mic_guard_timer[w] = s1.next_id]
                 s3 == enforce_mic_state(s2, w, io).st
             IN  [s3 EXCEPT !.mic_combo_sensitive[w] = FALSE]
        ELSE LET s2 == IF s1.mic_guard_timer[w] # None
                       THEN source_remove(s1, s1.mic_guard_timer[w])
                       ELSE s1
             IN  [s2 EXCEPT !.mic_combo_sensitive[w] = TRUE]

\* Gtk.Switch.set_active on mixer_guard_switch: a change of the switch emits
\* "state-set", which is connected to on_mixer_guard_toggled.
mixer_guard_switch_set_active(st, w, value, io) ==
    IF st.mixer_guard_switch[w] = value THEN st
    ELSE on_mixer_guard_toggled([st EXCEPT !.mixer_guard_switch[w] = value],
                                w, value, io)

\* Gtk.Switch.set_active on mic_switch
mic_switch_set_active(st, w, value, io) ==
    IF st.mic_switch[w] = value THEN st
    ELSE on_mic_guard_toggled([st EXCEPT !.mic_switch[w] = value], w, value, io)

\* AudioMixerBase.restore_mixer_guard
restore_mixer_guard(st, w, io) ==
    on_mixer_guard_toggled(mixer_guard_switch_set_active(st, w, TRUE, io),
                           w, TRUE, io)

\* AudioMixerBase.restore_mic_guard
restore_mic_guard(st, w, io) ==
    on_mic_guard_toggled(mic_switch_set_active(st, w, TRUE, io), w, TRUE, io)

\* AudioMixerBase.cleanup (graph_process, which no guard or monitor reads,
\* is left out)
cleanup(st, w) ==
    LET s1 == IF st.mic_guard_timer[w] # None
              THEN [source_remove(st, st.mic_guard_timer[w])
                        EXCEPT !.mic_guard_timer[w] = None]
              ELSE st
        s2 == IF s1.mixer_guard_timer[w] # None
              THEN [source_remove(s1, s1.mixer_guard_timer[w])
                        EXCEPT !.mixer_guard_timer[w] = None]
              ELSE s1
    IN  IF s2.monitor_process[w] # None
        THEN [s2 EXCEPT !.procs[s2.monitor_process[w]] = "exited",
                        !.monitor_process[w] = None]
        ELSE s2

\* AudioMixerBase.transfer_state_from, run in the constructor of window w
transfer_state_from(st, w, old) ==
    LET s1 == [st EXCEPT !.is_monitoring[w] = st.is_monitoring[old],
                         !.mixer_exists[w] = st.mixer_exists[old],
                         !.is_muted[w] = st.is_muted[old],
                         !.mic_guard_active[w] = st.mic_guard_active[old],
                         !.mixer_guard_active[w] = st.mixer_guard_active[old]]
        s2 == IF s1.is_monitoring[w]
              THEN [s1 EXCEPT !.threads =
                        Append(@, [w |-> w, pc |-> "start", proc |-> None])]
              ELSE s1
        s3 == IF s2.mixer_guard_active[w]
              THEN [s2 EXCEPT !.idle = Append(@, [fn |-> "restore_mixer_guard", w |-> w])]
              ELSE s2
    IN  IF s3.mic_guard_active[w]
        THEN [s3 EXCEPT !.idle = Append(@, [fn |-> "restore_mic_guard", w |-> w])]
        ELSE s3

\* Gtk.Window.destroy: the widgets of window w are gone. What they held is
\* not kept: a later read is an outcome of WidgetRead.
Destroyed(st, w) ==
    [st EXCEPT !.destroyed[w] = TRUE,
               !.mixer_lock_scale[w] = 100,
               !.mic_scale[w] = 100,
               !.mic_combo[w] = "@DEFAULT_SOURCE@",
               !.mic_combo_sensitive[w] = TRUE,
               !.vol_sensitive[w] = FALSE,
               !.sens[w] = [create |-> FALSE, delete |-> FALSE, start |-> FALSE,
                            stop |-> FALSE, mixer_guard_switch |-> FALSE]]

\* AudioMixerBase.switch_window: the other view is built from this window,
\* then this window is destroyed (on_window_destroy runs cleanup and returns)
switch_window(st, w) ==
    LET new == w + 1
        s1 == [st EXCEPT !.switching_mode[w] = TRUE, !.nwin = new]
        s2 == update_status_display(transfer_state_from(s1, new, w), new)
    IN  cleanup(Destroyed(s2, w), w)

Cur == adv.nwin

\* The outcomes a callback of guard g of window w can meet: the widgets of
\* a window that is not destroyed are read as they are, and the mixer guard
\* reads no combo box.
IOsOf(w, g) ==
    {io \in IOs :
        /\ ~adv.destroyed[w] => io.dead_scale = 0 /\ io.dead_combo = ""
        /\ g = "mixer" => io.dead_combo = ""}

Alive == ~adv.exited

\* GLib source ids are handles: the program only stores them and hands them
\* back to source_remove. After every step the live sources are renumbered
\* 1..n (by window, guard, age) and a stored id whose source is gone becomes
\* Stale, so that runs differing only in the numbers handed out coincide.
Stale == -1

SrcKey(s) == (2 * s.w + (IF s.g = "mixer" THEN 0 ELSE 1)) * 1000 + s.id

Rank(st, s) == Cardinality({t \in st.sources : SrcKey(t) <= SrcKey(s)})

Renumbered(st, id) ==
    IF id = None THEN None
    ELSE IF \E s \in st.sources : s.id = id
    THEN Rank(st, CHOOSE s \in st.sources : s.id = id)
    ELSE Stale

Normalize(st) ==
    [st EXCEPT !.sources = {[id |-> Rank(st, s), w |-> s.w, g |-> s.g] : s \in st.sources},
               !.next_id = Cardinality(st.sources) + 1,
               !.mixer_guard_timer = [w \in Windows |-> Renumbered(st, @[w])],
               !.mic_guard_timer = [w \in Windows |-> Renumbered(st, @[w])]]

\* A destroyed window is only reached through the callbacks still
\* registered for it. What none of them reads is forgotten: the widgets, the
\* stored timer ids (cleanup has run and nothing removes a source of the
\* window any more), and the flags of a guard that has neither a live source
\* nor a pending restore.
Pending(st, w, g) ==
    \/ \E s \in st.sources : s.w = w /\ s.g = g
    \/ \E i \in DOMAIN st.idle :
            st.idle[i] = [fn |-> (IF g = "mixer" THEN "restore_mixer_guard"
                                  ELSE "restore_mic_guard"), w |-> w]

Collect(st) ==
    LET dead(w) == st.destroyed[w]
    IN  [st EXCEPT
            !.mixer_guard_timer = [w \in Windows |-> IF dead(w) THEN None ELSE @[w]],
            !.mic_guard_timer = [w \in Windows |-> IF dead(w) THEN None ELSE @[w]],
            !.is_muted = [w \in Windows |-> IF dead(w) THEN FALSE ELSE @[w]],
            !.vol_sensitive = [w \in Windows |-> IF dead(w) THEN FALSE ELSE @[w]],
            !.mic_combo_sensitive = [w \in Windows |-> IF dead(w) THEN TRUE ELSE @[w]],
            !.mixer_guard_switch = [w \in Windows |->
                IF dead(w) /\ ~Pending(st, w, "mixer") THEN FALSE ELSE @[w]],
            !.mic_switch = [w \in Windows |->
                IF dead(w) /\ ~Pending(st, w, "mic") THEN FALSE ELSE @[w]],
            !.mixer_guard_active = [w \in Windows |->
                IF dead(w) /\ ~Pending(st, w, "mixer") THEN FALSE ELSE @[w]],
            !.mixer_exists = [w \in Windows |->
                IF dead(w) /\ ~Pending(st, w, "mixer") THEN FALSE ELSE @[w]],
            !.mic_guard_active = [w \in Windows |->
                IF dead(w) /\ ~Pending(st, w, "mic") THEN FALSE ELSE @[w]]]

AdvStep(st) == adv' = Collect(Normalize(st)) /\ UNCHANGED <<waveVars, conn, mon, sysVars>>

\* the user flips mixer_guard_switch: "state-set" -> on_mixer_guard_toggled
UserToggleMixerGuard ==
    /\ Alive
    /\ adv.sens[Cur].mixer_guard_switch
    /\ \E io \in IOsOf(Cur, "mixer") :
        AdvStep(mixer_guard_switch_set_active(Begin(adv), Cur,
                                              ~adv.mixer_guard_switch[Cur], io))

\* the user flips mic_switch: "state-set" -> on_mic_guard_toggled
UserToggleMicGuard ==
    /\ Alive
    /\ \E io \in IOsOf(Cur, "mic") :
        AdvStep(mic_switch_set_active(Begin(adv), Cur, ~adv.mic_switch[Cur], io))

\* a GLib timeout source of guard g of window w fires; a callback returning
\* False removes the source
TimerTickAt(w, g) ==
    /\ Alive
    /\ \E src \in adv.sources : \E io \in IOsOf(w, g) :
        /\ src.w = w
        /\ src.g = g
        /\ LET s0 == Begin(adv)
               r == IF g = "mixer" THEN enforce_mixer_state(s0, w, io)
                    ELSE enforce_mic_state(s0, w, io)
           IN  AdvStep(IF r.ret THEN r.st ELSE source_remove(r.st, src.id))

TimerTickOf(g) == \E w \in Windows : TimerTickAt(w, g)

TimerTick == \E g \in {"mixer", "mic"} : TimerTickOf(g)

\* the main loop runs the oldest pending idle callback, here fn
RunIdleOf(fn) ==
    /\ Alive
    /\ adv.idle # <<>>
    /\ Head(adv.idle).fn = fn
    /\ \E io \in IOsOf(Head(adv.idle).w,
                       IF fn = "restore_mic_guard" THEN "mic" ELSE "mixer") :
        LET w == Head(adv.idle).w
            s0 == [Begin(adv) EXCEPT !.idle = Tail(@)]
        IN  IF fn = "restore_mixer_guard"
            THEN AdvStep(restore_mixer_guard(s0, w, io))
            ELSE IF fn = "restore_mic_guard"
            THEN AdvStep(restore_mic_guard(s0, w, io))
            ELSE AdvStep(update_status_display(s0, w))

RunIdle ==
    \E fn \in {"restore_mixer_guard", "restore_mic_guard", "update_status_display"} :
        RunIdleOf(fn)

\* AudioMixerBase.on_create_clicked; run_command succeeds or fails
OnCreateClicked ==
    /\ Alive
    /\ adv.sens[Cur].create
    /\ \E ok \in BOOLEAN :
        LET s0 == Begin(adv)
        IN  AdvStep(IF ok
                    THEN update_status_display([s0 EXCEPT !.mixer_exists[Cur] = TRUE], Cur)
                    ELSE s0)

\* AudioMixerBase.on_delete_clicked
OnDeleteClicked ==
    /\ Alive
    /\ adv.sens[Cur].delete
    /\ \E ok \in BOOLEAN :
        LET s0 == Begin(adv)
        IN  AdvStep(IF adv.is_monitoring[Cur] THEN s0
                    ELSE IF ok
                    THEN update_status_display([s0 EXCEPT !.mixer_exists[Cur] = FALSE], Cur)
                    ELSE s0)

\* AudioMixerBase.on_start_clicked
OnStartClicked ==
    /\ Alive
    /\ adv.sens[Cur].start
    /\ Len(adv.threads) < MaxThreads
    /\ LET s0 == Begin(adv)
           s1 == update_status_display([s0 EXCEPT !.is_monitoring[Cur] = TRUE], Cur)
       IN  AdvStep([s1 EXCEPT !.threads =
                        Append(@, [w |-> Cur, pc |-> "start", proc |-> None])])

\* AudioMixerBase.on_stop_clicked
OnStopClicked ==
    /\ Alive
    /\ adv.sens[Cur].stop
    /\ LET s0 == Begin(adv)
           p == adv.monitor_process[Cur]
           s1 == IF p # None /\ adv.procs[p] = "running"
                 THEN [s0 EXCEPT !.procs[p] = "signalled"]
                 ELSE s0
       IN  AdvStep(update_status_display([s1 EXCEPT !.is_monitoring[Cur] = FALSE], Cur))

\* monitor_thread: Popen of the monitor script, or the exception it raises
MonitorSpawn ==
    /\ Alive
    /\ \E t \in DOMAIN adv.threads :
        /\ adv.threads[t].pc = "start"
        /\ LET w == adv.threads[t].w
               s0 == Begin(adv)
           IN  \/ /\ Len(adv.procs) < MaxProcs
                  /\ AdvStep([s0 EXCEPT !.procs = Append(@, "running"),
                                        !.monitor_process[w] = Len(adv.procs) + 1,
                                        !.threads[t].pc = "drain",
                                        !.threads[t].proc = Len(adv.procs) + 1])
               \/ AdvStep([s0 EXCEPT !.threads[t].pc = "finally"])

\* monitor_thread: the loop over the process's stdout ends at end of file
MonitorEof ==
    /\ Alive
    /\ \E t \in DOMAIN adv.threads :
        /\ adv.threads[t].pc = "drain"
        /\ adv.procs[adv.threads[t].proc] = "exited"
        /\ AdvStep([Begin(adv)
                        EXCEPT !.threads[t].pc = "finally"])

\* monitor_thread: the finally block
MonitorFinally ==
    /\ Alive
    /\ \E t \in DOMAIN adv.threads :
        /\ adv.threads[t].pc = "finally"
        /\ LET w == adv.threads[t].w
               s0 == [Begin(adv)
                          EXCEPT !.threads[t].pc = "done",
                                 !.monitor_process[w] = None]
           IN  AdvStep(IF ~adv.switching_mode[w]
                       THEN [s0 EXCEPT !.is_monitoring[w] = FALSE,
                                       !.idle = Append(@, [fn |-> "update_status_display",
                                                           w |-> w])]
                       ELSE s0)

\* a monitor process ends, by itself or after a signal
ProcExit ==
    /\ Alive
    /\ \E p \in DOMAIN adv.procs :
        /\ adv.procs[p] \in {"running", "signalled"}
        /\ AdvStep([Begin(adv) EXCEPT !.procs[p] = "exited"])

\* the "Compact" / "Pro" button: AudioMixerBase.switch_window
SwitchWindow ==
    /\ Alive
    /\ Cur < MaxWindows
    /\ adv.is_monitoring[Cur] => Len(adv.threads) < MaxThreads
    /\ AdvStep(switch_window(Begin(adv), Cur))

\* sys.exit: the process and its objects are gone; the monitor processes,
\* which are other processes, remain as they are
Exited(st) ==
    [AdvInitial(FALSE) EXCEPT !.exited = TRUE, !.procs = st.procs]

\* the view switch of the runs where both guards are used
SwitchView ==
    /\ Cur < MaxViews
    /\ SwitchWindow

\* on_back_clicked, or closing the window (on_window_destroy): cleanup, then
\* Gtk.main_quit and sys.exit
Quit ==
    /\ Alive
    /\ AdvStep(Exited(cleanup(Begin(adv), Cur)))

\* the user moves mixer_lock_scale (sensitive while the mixer exists)
SetMixerLockScale ==
    /\ Alive
    /\ adv.sens[Cur].mixer_guard_switch
    /\ \E v \in ScaleValues \ {adv.mixer_lock_scale[Cur]} :
        AdvStep([Begin(adv) EXCEPT !.mixer_lock_scale[Cur] = v])

\* the user moves mic_scale
SetMicScale ==
    /\ Alive
    /\ \E v \in ScaleValues \ {adv.mic_scale[Cur]} :
        AdvStep([Begin(adv) EXCEPT !.mic_scale[Cur] = v])

\* ============================================ AudioMixerGUI (simple GUI)

MaxWorkers == 4     \* worker threads started over a run

\* conn is a record:
\*   is_connected, is_connecting, shutdown_flag   the attributes of that name
\*   monitor_process   None or an index into procs
\*   monitor_thread    None or an index into threads
\*   state_lock        None when free, else the index of the worker holding it
\*   status            the text of status_label
\*   connect_sensitive, disconnect_sensitive, volume_sensitive   the widgets
\*   idle              callbacks posted with GLib.idle_add, oldest first
\*   threads           every worker started: [target, pc]
\*   procs             every monitor process spawned: "running", "exited"
\*                     (it ended by itself) or "killed"
\*   exited            Gtk.main_quit has run
\*   unexpected        history: "Monitor stopped unexpectedly" dialogs shown
\*   rejected          history: the step just taken was a click that the
\*                     handler returned from at its is_connecting check
\*   unlocked          history: the fields among is_connected,
\*                     is_connecting, shutdown_flag and monitor_process
\*                     that the step just taken read or wrote outside a
\*                     "with self.state_lock" block

\* AudioMixerGUI.__init__ with check_mixer_status finding the mixer or not
ConnInitial(mixer_exists) ==
    [is_connected |-> mixer_exists,
     is_connecting |-> FALSE,
     shutdown_flag |-> FALSE,
     monitor_process |-> None,
     monitor_thread |-> None,
     state_lock |-> None,
     status |-> IF mixer_exists THEN "Connected" ELSE "Disconnected",
     connect_sensitive |-> ~mixer_exists,
     disconnect_sensitive |-> mixer_exists,
     volume_sensitive |-> mixer_exists,
     idle |-> <<>>,
     threads |-> <<>>,
     procs |-> <<>>,
     exited |-> FALSE,
     unexpected |-> 0,
     rejected |-> FALSE,
     unlocked |-> {}]

\* GLib.idle_add; at is the place of the call in the worker (history)
idle_add(st, fn, arg, at) ==
    [st EXCEPT !.idle = Append(@, [fn |-> fn, arg |-> arg, at |-> at])]

Thread_start(st, target) ==
    [st EXCEPT !.threads = Append(@, [target |-> target, pc |-> "run"])]

is_alive(st, t) == st.threads[t].pc # "done"

\* on_connect_clicked without its check of is_connecting
on_connect_clicked_unguarded(st) ==
    LET s1 == [st EXCEPT !.is_connecting = TRUE,
                         !.shutdown_flag = FALSE,
                         !.connect_sensitive = FALSE,
                         !.status = "Connecting..."]
        s2 == Thread_start(s1, "connect_thread")
    IN  [s2 EXCEPT !.monitor_thread = Len(s2.threads)]

\* AudioMixerGUI.on_connect_clicked
on_connect_clicked(st) ==
    IF st.is_connecting THEN st
    ELSE LET s1 == [st EXCEPT !.is_connecting = TRUE,
                              !.shutdown_flag = FALSE,
                              !.connect_sensitive = FALSE,
                              !.status = "Connecting..."]
             s2 == Thread_start(s1, "connect_thread")
         IN  [s2 EXCEPT !.monitor_thread = Len(s2.threads)]

\* AudioMixerGUI.on_disconnect_clicked
on_disconnect_clicked(st) ==
    IF st.is_connecting THEN st
    ELSE Thread_start([st EXCEPT !.is_connecting = TRUE,
                                 !.disconnect_sensitive = FALSE,
                                 !.status = "Disconnecting..."],
                      "disconnect_thread")

\* finish_connection clearing is_connecting only when the connection stands
finish_connection_keeps_connecting(st, success) ==
    IF success /\ ~st.shutdown_flag
    THEN [st EXCEPT !.is_connecting = FALSE,
                    !.is_connected = TRUE,
                    !.status = "Connected",
                    !.connect_sensitive = FALSE,
                    !.disconnect_sensitive = TRUE,
                    !.volume_sensitive = TRUE]
    ELSE [st EXCEPT !.status = "Disconnected",
                    !.connect_sensitive = TRUE,
                    !.disconnect_sensitive = FALSE]

\* AudioMixerGUI.finish_connection
finish_connection(st, success) ==
    LET s1 == [st EXCEPT !.is_connecting = FALSE]
    IN  IF success /\ ~s1.shutdown_flag
        THEN [s1 EXCEPT !.is_connected = TRUE,
                        !.status = "Connected",
                        !.connect_sensitive = FALSE,
                        !.disconnect_sensitive = TRUE,
                        !.volume_sensitive = TRUE]
        ELSE [s1 EXCEPT !.status = "Disconnected",
                        !.connect_sensitive = TRUE,
                        !.disconnect_sensitive = FALSE]

\* AudioMixerGUI.finish_disconnection
finish_disconnection(st, success) ==
    LET s1 == [st EXCEPT !.is_connecting = FALSE, !.shutdown_flag = FALSE]
    IN  IF success
        THEN [s1 EXCEPT !.is_connected = FALSE,
                        !.status = "Disconnected",
                        !.connect_sensitive = TRUE,
                        !.disconnect_sensitive = FALSE,
                        !.volume_sensitive = FALSE]
        ELSE [s1 EXCEPT !.status = "Error",
                        !.disconnect_sensitive = TRUE]

\* AudioMixerGUI.on_monitor_stopped_unexpectedly, with the error dialog it
\* shows at its end
on_monitor_stopped_unexpectedly(st) ==
    IF st.shutdown_flag THEN st
    ELSE [st EXCEPT !.is_connected = FALSE,
                    !.monitor_process = None,
                    !.status = "Monitor Stopped",
                    !.connect_sensitive = TRUE,
                    !.disconnect_sensitive = TRUE,
                    !.volume_sensitive = FALSE,
                    !.unexpected = Min(@ + 1, 2)]

\* AudioMixerGUI.kill_process_tree on the process group of monitor process p
kill_process_tree(st, p) ==
    IF st.procs[p] = "running" THEN [st EXCEPT !.procs[p] = "killed"] ELSE st

\* the except clause of connect_thread
connect_thread_except(st, at) ==
    IF ~st.shutdown_flag
    THEN idle_add(idle_add(st, "show_error_dialog", "Connection error", at),
                  "finish_connection", FALSE, at)
    ELSE st

Finish(st, t) == [st EXCEPT !.threads[t].pc = "done"]

Goto(st, t, pc) == [st EXCEPT !.threads[t].pc = pc]

\* One step of worker t running connect_thread.  The steps are: "run" (the
\* script lookup and the create command), "lock" (entering the with block),
\* "locked" (the shutdown check and Popen, which may raise, then leaving
\* the block),
\* "spawned" (posting finish_connection(True)), "loop" (an iteration of the
\* loop that ends it) and "after" (the check that follows the loop).
connect_thread(st, t, outcome) ==
    LET pc == st.threads[t].pc
    IN  CASE pc = "run" ->
               IF outcome = "no_script"
               THEN Finish(idle_add(idle_add(st, "show_error_dialog", "Script not found", "run"),
                                    "finish_connection", FALSE, "run"), t)
               ELSE IF outcome = "failed"
               THEN Finish(idle_add(idle_add(st, "show_error_dialog", "Failed to create mixer", "run"),
                                    "finish_connection", FALSE, "run"), t)
               ELSE IF outcome = "raised"
               THEN Finish(connect_thread_except(st, "run"), t)
               ELSE Goto(st, t, "lock")
          [] pc = "lock" ->
               Goto([st EXCEPT !.state_lock = t], t, "locked")
          [] pc = "locked" ->
               IF st.shutdown_flag
               THEN Finish(idle_add([st EXCEPT !.state_lock = None],
                                    "finish_connection", FALSE, "locked"), t)
               ELSE IF outcome = "raised"
               THEN Finish(connect_thread_except([st EXCEPT !.state_lock = None],
                                                 "locked"), t)
               ELSE Goto([st EXCEPT !.procs = Append(@, "running"),
                                    !.monitor_process = Len(st.procs) + 1,
                                    !.state_lock = None], t, "spawned")
          [] pc = "spawned" ->
               Goto(idle_add(st, "finish_connection", TRUE, "spawned"), t, "loop")
          [] pc = "loop" ->
               IF st.shutdown_flag THEN Goto(st, t, "after")
               ELSE IF st.monitor_process = None
               THEN IF outcome = "raised"
                    THEN Finish(connect_thread_except(st, "loop"), t)
                    ELSE Goto(st, t, "after")
               ELSE Goto(st, t, "after")
          [] pc = "after" ->
               IF ~st.shutdown_flag /\ st.is_connected
               THEN Finish(idle_add(st, "on_monitor_stopped_unexpectedly", FALSE, "after"), t)
               ELSE Finish(st, t)

\* the outcomes a step of connect_thread can have
ConnectOutcomes(st, t) ==
    CASE st.threads[t].pc = "run" -> {"no_script", "failed", "raised", "ok"}
      [] st.threads[t].pc = "locked" /\ ~st.shutdown_flag -> {"raised", "ok"}
      [] st.threads[t].pc = "loop" /\ ~st.shutdown_flag
            /\ st.monitor_process = None -> {"raised", "ok"}
      [] OTHER -> {"ok"}

\* whether worker t running connect_thread can take its next step: the with
\* block waits for the lock, and the loop goes on while the flag is clear
\* and the monitor process runs
ConnectEnabled(st, t) ==
    CASE st.threads[t].pc = "done" -> FALSE
      [] st.threads[t].pc = "lock" -> st.state_lock = None
      [] st.threads[t].pc = "loop" ->
            IF st.shutdown_flag \/ st.monitor_process = None THEN TRUE
            ELSE st.procs[st.monitor_process] # "running"
      [] OTHER -> TRUE

\* One step of worker t running disconnect_thread.  The steps are: "run"
\* (the script lookup and setting shutdown_flag under the lock), "kill"
\* (killing the monitor's process group and waiting for it), "clear"
\* (clearing monitor_process under the lock) and "join" (joining the monitor
\* thread for at most two seconds, then the delete command).
disconnect_thread(st, t, outcome) ==
    LET pc == st.threads[t].pc
    IN  CASE pc = "run" ->
               IF outcome = "no_script"
               THEN Finish(idle_add(idle_add(st, "show_error_dialog", "Script not found", "run"),
                                    "finish_disconnection", FALSE, "run"), t)
               ELSE Goto([st EXCEPT !.shutdown_flag = TRUE], t, "kill")
          [] pc = "kill" ->
               IF st.monitor_process # None
               THEN Goto(kill_process_tree(st, st.monitor_process), t, "clear")
               ELSE Goto(st, t, "join")
          [] pc = "clear" ->
               Goto([st EXCEPT !.monitor_process = None], t, "join")
          [] pc = "join" ->
               IF outcome = "raised"
               THEN Finish(idle_add(idle_add(st, "show_error_dialog", "Disconnection error", "join"),
                                    "finish_disconnection", FALSE, "join"), t)
               ELSE Finish(idle_add(st, "finish_disconnection", outcome = "ok", "join"), t)

DisconnectOutcomes(st, t) ==
    CASE st.threads[t].pc = "run" -> {"no_script", "ok"}
      [] st.threads[t].pc = "join" -> {"ok", "failed", "raised"}
      [] OTHER -> {"ok"}

DisconnectEnabled(st, t) ==
    CASE st.threads[t].pc = "done" -> FALSE
      [] st.threads[t].pc = "run" -> st.state_lock = None
      [] st.threads[t].pc = "clear" -> st.state_lock = None
      [] OTHER -> TRUE

\* AudioMixerGUI.cleanup followed by Gtk.main_quit (on_window_destroy): the
\* daemon workers end with the process
AudioMixerGUI_cleanup(st) ==
    LET s1 == [st EXCEPT !.shutdown_flag = TRUE]
    IN  IF s1.monitor_process # None
        THEN kill_process_tree(s1, s1.monitor_process)
        ELSE s1

ConnExited(st) ==
    [ConnInitial(FALSE) EXCEPT !.exited = TRUE,
                               !.shutdown_flag = TRUE,
                               !.connect_sensitive = FALSE,
                               !.procs = AudioMixerGUI_cleanup(st).procs]

ConnAlive == ~conn.exited

ConnBegin(st) == [st EXCEPT !.rejected = FALSE, !.unlocked = {}]

\* the fields on_connect_clicked and on_disconnect_clicked access outside
\* their with block: the check of is_connecting that opens them
on_clicked_unlocked == {"is_connecting"}

\* the fields a step of connect_thread accesses outside its with block: the
\* loop condition and the poll of monitor_process, the check after the
\* loop, and the check in the except clause
connect_thread_unlocked(st, t, outcome) ==
    LET pc == st.threads[t].pc
    IN  CASE pc = "run" ->
               IF outcome = "raised" THEN {"shutdown_flag"} ELSE {}
          [] pc = "locked" ->
               IF ~st.shutdown_flag /\ outcome = "raised" THEN {"shutdown_flag"}
               ELSE {}
          [] pc = "loop" ->
               IF st.shutdown_flag THEN {"shutdown_flag"}
               ELSE {"shutdown_flag", "monitor_process"}
          [] pc = "after" ->
               IF st.shutdown_flag THEN {"shutdown_flag"}
               ELSE {"shutdown_flag", "is_connected"}
          [] OTHER -> {}

\* the fields a step of disconnect_thread accesses outside its with blocks:
\* the test of monitor_process and the read of its pid
disconnect_thread_unlocked(st, t) ==
    IF st.threads[t].pc = "kill" THEN {"monitor_process"} ELSE {}

ConnStep(st) == conn' = st /\ UNCHANGED <<waveVars, adv, mon, sysVars>>

\* a click on the Connect button
ClickConnect ==
    /\ ConnAlive
    /\ conn.connect_sensitive
    /\ conn.is_connecting \/ Len(conn.threads) < MaxWorkers
    /\ conn.is_connecting \/ conn.state_lock = None
    /\ ConnStep([on_connect_clicked(conn) EXCEPT
                    !.rejected = conn.is_connecting,
                    !.unlocked = on_clicked_unlocked])

\* a click on the Disconnect button
ClickDisconnect ==
    /\ ConnAlive
    /\ conn.disconnect_sensitive
    /\ conn.is_connecting \/ Len(conn.threads) < MaxWorkers
    /\ conn.is_connecting \/ conn.state_lock = None
    /\ ConnStep([on_disconnect_clicked(conn) EXCEPT
                    !.rejected = conn.is_connecting,
                    !.unlocked = on_clicked_unlocked])

\* the main loop runs the oldest posted callback
ConnRunIdle ==
    /\ ConnAlive
    /\ conn.idle # <<>>
    /\ LET cb == Head(conn.idle)
           s0 == [ConnBegin(conn) EXCEPT !.idle = Tail(@)]
       IN  \/ /\ cb.fn = "show_error_dialog"
              /\ ConnStep(s0)
           \/ /\ cb.fn = "finish_connection"
              /\ conn.state_lock = None
              /\ ConnStep(finish_connection(s0, cb.arg))
           \/ /\ cb.fn = "finish_disconnection"
              /\ conn.state_lock = None
              /\ ConnStep(finish_disconnection(s0, cb.arg))
           \/ /\ cb.fn = "on_monitor_stopped_unexpectedly"
              /\ conn.state_lock = None
              /\ ConnStep(on_monitor_stopped_unexpectedly(s0))

\* a worker running connect_thread takes a step
ConnectThreadStep ==
    /\ ConnAlive
    /\ \E t \in DOMAIN conn.threads :
        /\ conn.threads[t].target = "connect_thread"
        /\ ConnectEnabled(conn, t)
        /\ \E outcome \in ConnectOutcomes(conn, t) :
             ConnStep([connect_thread(ConnBegin(conn), t, outcome) EXCEPT
                         !.unlocked = connect_thread_unlocked(conn, t, outcome)])

\* a worker running disconnect_thread takes a step
DisconnectThreadStep ==
    /\ ConnAlive
    /\ \E t \in DOMAIN conn.threads :
        /\ conn.threads[t].target = "disconnect_thread"
        /\ DisconnectEnabled(conn, t)
        /\ \E outcome \in DisconnectOutcomes(conn, t) :
             ConnStep([disconnect_thread(ConnBegin(conn), t, outcome) EXCEPT
                         !.unlocked = disconnect_thread_unlocked(conn, t)])

\* a running monitor process ends by itself
MonitorProcessExit ==
    /\ ConnAlive
    /\ \E p \in DOMAIN conn.procs :
        /\ conn.procs[p] = "running"
        /\ ConnStep([ConnBegin(conn) EXCEPT !.procs[p] = "exited"])

\* the window is closed: on_window_destroy
ConnQuit ==
    /\ ConnAlive
    /\ conn.state_lock = None
    /\ ConnStep(ConnExited(conn))

NextConn ==
    \/ ClickConnect
    \/ ClickDisconnect
    \/ ConnRunIdle
    \/ ConnectThreadStep
    \/ DisconnectThreadStep
    \/ MonitorProcessExit
    \/ ConnQuit

\* ================================= the monitor process and its teardown

MaxKids == 2        \* processes the monitor script has started
MaxCalls == 2       \* teardowns of one monitor process

\* A process of the script other than bash itself: it ends on SIGTERM
\* ("polite"), only on SIGKILL ("stubborn"), or has ended ("dead").
KidStates == {"polite", "stubborn", "dead"}

\* The state of one monitor process:
\*   gui          which program started it: "simple" (outputs-to-inputs.py)
\*                or "adv" (outputs-to-inputs-adv.py)
\*   own_group    Popen was given start_new_session=True
\*   leader       the bash process Popen started: "none", "running",
\*                "zombie" (ended, not waited for) or "reaped"
\*   kids         the other processes of the script
\*   pc           where kill_process_tree stands: "idle" (not running),
\*                "slept" (after SIGTERM and the sleep) or "fallback"
\*                (after the SIGTERM of the fallback and its sleep)
\*   sent         history: the signals sent, each with its scope
\*   calls        history: teardowns started
\*   escaped      history: an exception left kill_process_tree
PgNone ==
    [gui |-> "simple",
     own_group |-> FALSE,
     leader |-> "none",
     kids |-> [k \in 1..MaxKids |-> "dead"],
     pc |-> "idle",
     sent |-> <<>>,
     calls |-> 0,
     escaped |-> FALSE]

\* subprocess.Popen of the monitor script: connect_thread passes
\* start_new_session=True, monitor_thread of the advanced GUI does not
Popen(gui, kids) ==
    [PgNone EXCEPT !.gui = gui,
                   !.own_group = (gui = "simple"),
                   !.leader = "running",
                   !.kids = kids]

Sent(st, sig, scope) ==
    [st EXCEPT !.sent = Append(@, [sig |-> sig, scope |-> scope,
                                   call |-> st.calls])]

\* os.getpgid(pid) raises ProcessLookupError
NoSuchProcess(st) == st.leader \in {"none", "reaped"}

\* os.killpg(os.getpgid(pid), sig) on a process that exists
killpg(st, sig) ==
    LET s1 == [st EXCEPT
                 !.leader = IF @ = "running" THEN "zombie" ELSE @,
                 !.kids = [k \in DOMAIN @ |->
                             IF sig = "KILL" \/ @[k] = "polite" THEN "dead"
                             ELSE @[k]]]
    IN  Sent(s1, sig, "group")

\* os.kill(pid, sig) / Popen.send_signal / Popen.kill on a process that
\* exists: bash alone gets the signal
kill(st, sig) ==
    Sent([st EXCEPT !.leader = IF @ = "running" /\ sig # "INT" THEN "zombie"
                               ELSE @],
         sig, "process")

\* the fallback of kill_process_tree up to its sleep: os.kill(pid, SIGTERM)
fallback(st) ==
    IF NoSuchProcess(st) THEN [st EXCEPT !.pc = "idle"]
    ELSE [kill(st, "TERM") EXCEPT !.pc = "fallback"]

KillOutcomes == {"ok", "error"}

\* One step of AudioMixerGUI.kill_process_tree: from "idle" the call up to
\* the end of its sleep, from "slept" the SIGKILL to the group, from
\* "fallback" the SIGKILL to the process.  outcome "error" is killpg
\* raising something else than ProcessLookupError.
kill_process_tree_step(st, outcome) ==
    CASE st.pc = "idle" ->
           LET s1 == [st EXCEPT !.calls = @ + 1]
           IN  IF NoSuchProcess(s1) THEN s1
               ELSE IF outcome = "error" THEN fallback(s1)
               ELSE [killpg(s1, "TERM") EXCEPT !.pc = "slept"]
      [] st.pc = "slept" ->
           IF NoSuchProcess(st) THEN [st EXCEPT !.pc = "idle"]
           ELSE IF outcome = "error" THEN fallback(st)
           ELSE [killpg(st, "KILL") EXCEPT !.pc = "idle"]
      [] st.pc = "fallback" ->
           IF NoSuchProcess(st) THEN [st EXCEPT !.pc = "idle"]
           ELSE [kill(st, "KILL") EXCEPT !.pc = "idle"]

\* the teardown of the advanced GUI (cleanup): SIGINT to the process, a
\* wait of half a second, and kill() of the process when the wait times out
adv_cleanup(st, exited) ==
    LET s1 == [st EXCEPT !.calls = @ + 1]
    IN  IF NoSuchProcess(s1) THEN s1
        ELSE IF exited
        THEN [kill(s1, "INT") EXCEPT !.leader = "reaped"]
        ELSE kill(kill(s1, "INT"), "KILL")

\* a step of kill_process_tree, called by disconnect_thread or by cleanup
KillProcessTree ==
    /\ pg.gui = "simple"
    /\ pg.pc # "idle" \/ pg.calls < MaxCalls
    /\ \E outcome \in KillOutcomes :
         pg' = kill_process_tree_step(pg, outcome)
    /\ UNCHANGED <<waveVars, adv, conn, mon, cmdVars>>

\* cleanup of the advanced GUI with a monitor process
AdvCleanup ==
    /\ pg.gui = "adv"
    /\ pg.calls < MaxCalls
    /\ \E exited \in BOOLEAN : pg' = adv_cleanup(pg, exited)
    /\ UNCHANGED <<waveVars, adv, conn, mon, cmdVars>>

\* the worker that reads the monitor's output polls it: a zombie is reaped
Reap ==
    /\ pg.leader = "zombie"
    /\ pg' = [pg EXCEPT !.leader = "reaped"]
    /\ UNCHANGED <<waveVars, adv, conn, mon, cmdVars>>

\* bash ends by itself
LeaderExits ==
    /\ pg.leader = "running"
    /\ pg' = [pg EXCEPT !.leader = "zombie"]
    /\ UNCHANGED <<waveVars, adv, conn, mon, cmdVars>>

\* a process of the script ends by itself
KidExits ==
    \E k \in DOMAIN pg.kids :
        /\ pg.kids[k] # "dead"
        /\ pg' = [pg EXCEPT !.kids[k] = "dead"]
        /\ UNCHANGED <<waveVars, adv, conn, mon, cmdVars>>

\* ===================================================== the mute button

MaxToggles == 4     \* clicks on the mute button over a run

\* mute is a record:
\*   gui        "simple" (outputs-to-inputs.py) or "adv"
\*   enabled    is_connected of the simple GUI, mixer_exists of the advanced
\*   is_muted   the attribute of that name
\*   label      the label of the mute button
\*   status     the text of volume_status_label (simple GUI)
\*   sink       whether the sink AudioMixer_Virtual is muted
\*   applied    history: the value of the last set-sink-mute that succeeded
\*   last       history: how the set-sink-mute of the step just taken ended
\*   reported   history: the step just taken showed an error
\*   raised     history: an exception left the handler in the step just taken
\*   toggles    history: clicks so far
MuteInitial(gui, enabled) ==
    [gui |-> gui,
     enabled |-> enabled,
     is_muted |-> FALSE,
     label |-> "Mute",
     status |-> "",
     sink |-> FALSE,
     applied |-> "none",
     last |-> "none",
     reported |-> FALSE,
     raised |-> FALSE,
     toggles |-> 0]

\* how pactl set-sink-mute can end: exit status 0, another exit status, or
\* no exit within the timeout
MuteOutcomes == {"ok", "failed", "timeout"}

\* pactl set-sink-mute AudioMixer_Virtual val
set_sink_mute(st, val, outcome) ==
    IF outcome = "ok"
    THEN [st EXCEPT !.sink = val,
                    !.applied = IF val THEN "muted" ELSE "unmuted",
                    !.last = outcome]
    ELSE [st EXCEPT !.last = outcome]

MuteLabel(muted) == IF muted THEN "Unmute" ELSE "Mute"

\* AudioMixerGUI.on_toggle_mute
on_toggle_mute_simple(st, outcome) ==
    IF ~st.enabled THEN st
    ELSE LET mute_value == ~st.is_muted
             s1 == set_sink_mute(st, mute_value, outcome)
         IN  IF outcome = "ok"
             THEN [s1 EXCEPT !.is_muted = ~st.is_muted,
                             !.label = MuteLabel(~st.is_muted),
                             !.status = IF ~st.is_muted THEN "Mixer muted"
                                        ELSE "Mixer unmuted"]
             ELSE IF outcome = "failed"
             THEN [s1 EXCEPT !.status = "Error", !.reported = TRUE]
             ELSE [s1 EXCEPT !.raised = TRUE]

\* AudioMixerBase.on_toggle_mute with update_mute_ui; the call has no timeout
on_toggle_mute_adv(st, outcome) ==
    IF ~st.enabled THEN st
    ELSE LET s1 == [st EXCEPT !.is_muted = ~st.is_muted]
             s2 == set_sink_mute(s1, s1.is_muted, outcome)
         IN  [s2 EXCEPT !.label = MuteLabel(s2.is_muted)]

on_toggle_mute(st, outcome) ==
    IF st.gui = "simple" THEN on_toggle_mute_simple(st, outcome)
    ELSE on_toggle_mute_adv(st, outcome)

MuteBegin(st) ==
    [st EXCEPT !.last = "none", !.reported = FALSE, !.raised = FALSE]

\* a click on the mute button
OnToggleMute ==
    \E outcome \in MuteOutcomes :
        /\ mute.toggles < MaxToggles
        /\ mute.gui = "adv" => outcome # "timeout"
        /\ mute' = [on_toggle_mute(MuteBegin(mute), outcome) EXCEPT !.toggles = @ + 1]
        /\ UNCHANGED <<waveVars, adv, conn, mon, pg, listing, query>>

\* the mixer is created or deleted: is_connected or mixer_exists changes
MixerChanges ==
    /\ mute' = [MuteBegin(mute) EXCEPT !.enabled = ~@]
    /\ UNCHANGED <<waveVars, adv, conn, mon, pg, listing, query>>

\* ============================================ AudioMonitor: the sources

MaxOut == 5         \* longest output of pactl list sources short

\* the characters of the output that are tried: two letters, the field
\* separator and the line separator
Chars == {"a", "b", "\t", "\n"}

\* the characters str.strip() removes
Whitespace == {" ", "\t", "\n", "\r"}

Outputs == UNION {[1..n -> Chars] : n \in 0..MaxOut}

\* str.strip()
RECURSIVE strip(_)
strip(s) ==
    IF s = <<>> THEN s
    ELSE IF Head(s) \in Whitespace THEN strip(Tail(s))
    ELSE IF s[Len(s)] \in Whitespace THEN strip(SubSeq(s, 1, Len(s) - 1))
    ELSE s

\* str.split(sep): the pieces between the occurrences of sep; one piece, the
\* string itself, when sep does not occur
RECURSIVE split(_, _)
split(s, sep) ==
    IF \A i \in DOMAIN s : s[i] # sep THEN <<s>>
    ELSE LET i == CHOOSE j \in DOMAIN s :
                    s[j] = sep /\ \A k \in 1..(j - 1) : s[k] # sep
         IN  <<SubSeq(s, 1, i - 1)>> \o split(SubSeq(s, i + 1, Len(s)), sep)

\* the loop of get_available_sources over the lines
RECURSIVE sources_of(_)
sources_of(lines) ==
    IF lines = <<>> THEN <<>>
    ELSE LET line == Head(lines)
             parts == split(line, "\t")
         IN  (IF line # <<>> /\ Len(parts) >= 2 THEN <<parts[2]>> ELSE <<>>)
                 \o sources_of(Tail(lines))

\* how subprocess.run(check=True) of pactl can end: exit status 0, another
\* exit status (CalledProcessError), or no pactl to run (FileNotFoundError)
RunOutcomes == {"ok", "nonzero", "missing"}

\* AudioMonitor.get_available_sources: what it returns, or that it raises
get_available_sources(stdout, outcome) ==
    IF outcome = "ok"
    THEN [sources |-> sources_of(split(strip(stdout), "\n")), raised |-> FALSE]
    ELSE IF outcome = "nonzero"
    THEN [sources |-> <<>>, raised |-> FALSE]
    ELSE [sources |-> <<>>, raised |-> TRUE]

\* listing is a record: what pactl does (outcome, stdout) and, once
\* get_available_sources has been called, what the call gave
ListingNone ==
    [outcome |-> "ok", stdout |-> <<>>, called |-> FALSE,
     sources |-> <<>>, raised |-> FALSE]

\* a caller asks for the sources
GetAvailableSources ==
    /\ ~listing.called
    /\ LET r == get_available_sources(listing.stdout, listing.outcome)
       IN  listing' = [listing EXCEPT !.called = TRUE,
                                      !.sources = r.sources,
                                      !.raised = r.raised]
    /\ UNCHANGED <<waveVars, adv, conn, mon, pg, mute, query>>

\* ========================================= AudioMixerGUI: the mute state

MaxLines == 3       \* lines of the output of pactl list sinks

\* What get_mute_state looks for in a line.  A line is the set of these
\* that occur in it; "Source #" is looked for as well and occurs in none of
\* the lines tried, and "yes" stands for any spelling that lower() turns
\* into it.
Tokens == {"AudioMixer_Virtual", "Mute:", "yes", "Sink #"}

Listings == UNION {[1..n -> SUBSET Tokens] : n \in 0..MaxLines}

\* how subprocess.run (no check) of pactl list sinks can end: exit status 0,
\* another exit status (pactl has written to stderr only), or an exception
\* (TimeoutExpired after 5 seconds, no pactl to run)
QueryOutcomes == {"ok", "nonzero", "raised"}

\* get_mute_state without the break at the next "Sink #" / "Source #"
RECURSIVE scan_no_break(_, _)
scan_no_break(lines, in_mixer_sink) ==
    IF lines = <<>> THEN FALSE
    ELSE LET line == Head(lines)
         IN  IF "AudioMixer_Virtual" \in line
             THEN scan_no_break(Tail(lines), TRUE)
             ELSE IF in_mixer_sink /\ "Mute:" \in line
             THEN "yes" \in line
             ELSE scan_no_break(Tail(lines), in_mixer_sink)

\* the loop of get_mute_state over the lines that are left
RECURSIVE scan(_, _)
scan(lines, in_mixer_sink) ==
    IF lines = <<>> THEN FALSE
    ELSE LET line == Head(lines)
         IN  IF "AudioMixer_Virtual" \in line
             THEN scan(Tail(lines), TRUE)
             ELSE IF in_mixer_sink /\ "Mute:" \in line
             THEN "yes" \in line
             ELSE IF in_mixer_sink /\ ("Sink #" \in line \/ "Source #" \in line)
             THEN FALSE
             ELSE scan(Tail(lines), in_mixer_sink)

\* AudioMixerGUI.get_mute_state
get_mute_state(lines, outcome) ==
    IF outcome = "raised" THEN FALSE ELSE scan(lines, FALSE)

\* query is a record: what pactl does (outcome, lines) and, once
\* get_mute_state has been called, what it returned
QueryNone == [outcome |-> "ok", lines |-> <<>>, called |-> FALSE, ret |-> FALSE]

\* a caller (update_mute_state_from_system) asks for the mute state
GetMuteState ==
    /\ ~query.called
    /\ query' = [query EXCEPT !.called = TRUE,
                              !.ret = get_mute_state(query.lines, query.outcome)]
    /\ UNCHANGED <<waveVars, adv, conn, mon, pg, mute, listing>>

\* ================== AudioMixerGUI with its embedded AudioWaveformMonitor

\* state_lock held by the main thread
MainThread == MaxWorkers + 1

\* The main loop runs the oldest posted callback while the monitor is shown
\* (monitor_visible and audio_monitor set by on_monitor_clicked):
\* finish_connection and finish_disconnection call audio_monitor.set_source
\* inside their with block, and a set_source that does not return leaves
\* the main thread in it.
ConnRunIdleShown ==
    /\ ConnAlive
    /\ ~mon.hung
    /\ conn.idle # <<>>
    /\ conn.state_lock = None
    /\ \E io \in StartIOs :
        LET cb == Head(conn.idle)
            s0 == [ConnBegin(conn) EXCEPT !.idle = Tail(@)]
            source == IF cb.fn = "finish_connection"
                      THEN IF cb.arg /\ ~conn.shutdown_flag
                           THEN "AudioMixer_Virtual.monitor" ELSE ""
                      ELSE IF cb.fn = "finish_disconnection"
                      THEN IF cb.arg THEN io.default ELSE ""
                      ELSE ""
            m1 == IF source = "" THEN mon ELSE set_source(mon, source, io)
            c1 == IF cb.fn = "finish_connection"
                  THEN finish_connection(s0, cb.arg)
                  ELSE IF cb.fn = "finish_disconnection"
                  THEN finish_disconnection(s0, cb.arg)
                  ELSE IF cb.fn = "on_monitor_stopped_unexpectedly"
                  THEN on_monitor_stopped_unexpectedly(s0)
                  ELSE s0
        IN  /\ mon' = m1
            /\ conn' = IF m1.hung THEN [c1 EXCEPT !.state_lock = MainThread] ELSE c1
    /\ UNCHANGED <<waveVars, adv, sysVars>>

\* a click on a button, which the main thread takes when it is not waiting
ClickShown ==
    /\ ~mon.hung
    /\ ClickConnect \/ ClickDisconnect

\* on_window_destroy: cleanup sets shutdown_flag, then close_monitor_window
\* stops the monitor before the process tree is killed and the thread joined
ConnQuitShown ==
    /\ ConnAlive
    /\ ~mon.hung
    /\ conn.state_lock = None
    /\ mon' = stop(mon)
    /\ conn' = IF stop(mon).hung
               THEN [ConnBegin(conn) EXCEPT !.shutdown_flag = TRUE]
               ELSE ConnExited(conn)
    /\ UNCHANGED <<waveVars, adv, sysVars>>

\* ================================================================ specs

\* Each specification moves one part of the programs and leaves the others
\* as they are constructed.

\* WaveformWidget(history_length = max_history)
WaveInit ==
    /\ max_history \in 1..MaxHistory
    /\ history = <<>>
    /\ pushed = <<>>
    /\ adv = AdvInitial(FALSE)
    /\ conn = ConnInitial(FALSE)
    /\ mon = MonInitial("")
    /\ pg = PgNone
    /\ mute = MuteInitial("simple", FALSE)
    /\ listing = ListingNone
    /\ query = QueryNone

\* CompactModeWindow() without state_source: check_mixer_status decides
AdvInit ==
    /\ max_history = MaxHistory
    /\ history = <<>>
    /\ pushed = <<>>
    /\ \E exists \in BOOLEAN : adv = AdvInitial(exists)
    /\ mon = MonInitial("")
    /\ conn = ConnInitial(FALSE)
    /\ pg = PgNone
    /\ mute = MuteInitial("simple", FALSE)
    /\ listing = ListingNone
    /\ query = QueryNone

\* AudioMixerGUI(): check_mixer_status decides
ConnInit ==
    /\ max_history = MaxHistory
    /\ history = <<>>
    /\ pushed = <<>>
    /\ adv = AdvInitial(FALSE)
    /\ \E mixer_exists \in BOOLEAN : conn = ConnInitial(mixer_exists)
    /\ mon = MonInitial("")
    /\ pg = PgNone
    /\ mute = MuteInitial("simple", FALSE)
    /\ listing = ListingNone
    /\ query = QueryNone

NextWave == SetSamples \/ ClearHistory

SpecWave == WaveInit /\ [][NextWave]_vars

\* The runs of the advanced GUI in which only the mixer guard is used and
\* the monitor is never started.
NextMixerGuard ==
    \/ UserToggleMixerGuard
    \/ SetMixerLockScale
    \/ TimerTick
    \/ RunIdle
    \/ OnCreateClicked
    \/ OnDeleteClicked
    \/ SwitchWindow
    \/ Quit

SpecMixerGuard == AdvInit /\ [][NextMixerGuard]_vars

\* The runs in which both guards are used, the scales stay where they are
\* and the monitor is never started.
NextGuards ==
    \/ UserToggleMixerGuard
    \/ UserToggleMicGuard
    \/ TimerTick
    \/ RunIdle
    \/ OnCreateClicked
    \/ OnDeleteClicked
    \/ SwitchView
    \/ Quit

SpecGuards == AdvInit /\ [][NextGuards]_vars

\* The runs of the advanced GUI in which the monitor is started and
\* stopped and no guard is armed.
NextMonitor ==
    \/ OnCreateClicked
    \/ OnDeleteClicked
    \/ OnStartClicked
    \/ OnStopClicked
    \/ MonitorSpawn
    \/ MonitorEof
    \/ MonitorFinally
    \/ ProcExit
    \/ RunIdle
    \/ SetMicScale
    \/ SwitchView
    \/ Quit

SpecMonitor == AdvInit /\ [][NextMonitor]_vars

SpecConn == ConnInit /\ [][NextConn]_vars

\* read_samples alone: the capture child absent, or present (alive or not)
\* with any bytes left in its pipe
ReadInit ==
    /\ max_history = MaxHistory
    /\ history = <<>>
    /\ pushed = <<>>
    /\ adv = AdvInitial(FALSE)
    /\ conn = ConnInitial(FALSE)
    /\ \E present \in BOOLEAN, alive \in BOOLEAN, pipe \in Pipes :
         mon = IF present
               THEN [start_capture(MonInitial("default.monitor"),
                                   "default.monitor", TRUE)
                       EXCEPT !.pipe = pipe,
                              !.children = IF alive THEN @ ELSE {}]
               ELSE MonInitial("default.monitor")
    /\ pg = PgNone
    /\ mute = MuteInitial("simple", FALSE)
    /\ listing = ListingNone
    /\ query = QueryNone

SpecRead == ReadInit /\ [][ReadSamples]_vars

\* AudioWaveformMonitor(source): the owner names a source or leaves None
CaptureInit ==
    /\ max_history = MaxHistory
    /\ history = <<>>
    /\ pushed = <<>>
    /\ adv = AdvInitial(FALSE)
    /\ conn = ConnInitial(FALSE)
    /\ \E source \in Devices \cup {""} : mon = MonInitial(source)
    /\ pg = PgNone
    /\ mute = MuteInitial("simple", FALSE)
    /\ listing = ListingNone
    /\ query = QueryNone

NextCapture ==
    \/ MonStart
    \/ MonStop
    \/ MonToggle
    \/ MonSetSource
    \/ MonCleanup
    \/ MonTick
    \/ CaptureWrites
    \/ CaptureExits
    \/ CaptureStalls

SpecCapture == CaptureInit /\ [][NextCapture]_vars

\* a monitor process has been started, by either program, and its script
\* has started some processes of its own
TeardownInit ==
    /\ max_history = MaxHistory
    /\ history = <<>>
    /\ pushed = <<>>
    /\ adv = AdvInitial(FALSE)
    /\ conn = ConnInitial(FALSE)
    /\ mon = MonInitial("")
    /\ \E gui \in {"simple", "adv"}, kids \in [1..MaxKids -> KidStates] :
         pg = Popen(gui, kids)
    /\ mute = MuteInitial("simple", FALSE)
    /\ listing = ListingNone
    /\ query = QueryNone

NextTeardown ==
    \/ KillProcessTree
    \/ AdvCleanup
    \/ Reap
    \/ LeaderExits
    \/ KidExits

SpecTeardown == TeardownInit /\ [][NextTeardown]_vars

\* ============================================== claims: WaveformWidget

LastN(s, n) == SubSeq(s, Len(s) - n + 1, Len(s))

\* C1: the history never holds more than max_history amplitudes, and it is
\* always the last min(max_history, k) of the k amplitudes appended since the
\* last clear, in the order they were appended.
C1_HistoryIsLastPushed ==
    /\ Len(history) <= max_history
    /\ history = LastN(pushed, Min(max_history, Len(pushed)))

\* more appends than the history holds, and the evicted amplitude differs
\* from the oldest one kept
C1_Witness ==
    /\ Len(pushed) > max_history
    /\ Len(history) = max_history
    /\ pushed[1] # history[1]

\* =============================================== claims: AudioMixerGUI

\* C2: while is_connecting is true, on_connect_clicked and
\* on_disconnect_clicked return at once and change nothing (no state, no
\* worker, nothing queued); and two on_connect_clicked calls in succession
\* from a state that is not connecting start exactly one worker.
C2_RejectedWhileConnecting ==
    /\ conn.is_connecting =>
         /\ on_connect_clicked(conn) = conn
         /\ on_disconnect_clicked(conn) = conn
    /\ ~conn.is_connecting =>
         /\ Len(on_connect_clicked(on_connect_clicked(conn)).threads)
              = Len(conn.threads) + 1
         /\ on_connect_clicked(on_connect_clicked(conn)) = on_connect_clicked(conn)

\* a click has just been rejected while a transition was under way
C2_Witness ==
    /\ conn.rejected
    /\ conn.is_connecting
    /\ \E t \in DOMAIN conn.threads : is_alive(conn, t)

\* C3: once the only worker ever started, a connect_thread, has spawned the
\* monitor, the monitor has ended by itself (shutdown_flag never set) and
\* everything posted has run, the state is Error: is_connected false, status
\* "Monitor Stopped", and "stopped unexpectedly" was reported exactly once.
C3_UnexpectedExitReported ==
    (/\ ConnAlive
     /\ Len(conn.threads) = 1
     /\ conn.threads[1].target = "connect_thread"
     /\ conn.threads[1].pc = "done"
     /\ conn.idle = <<>>
     /\ conn.procs = <<"exited">>)
    => (/\ ~conn.is_connected
        /\ conn.status = "Monitor Stopped"
        /\ conn.unexpected = 1)

\* ================================================= claims: the guards

Guards == {"mixer", "mic"}

SourcesOf(st, w, g) == {s \in st.sources : s.w = w /\ s.g = g}

PassesOf(st, w, g) == {i \in DOMAIN st.log : st.log[i].w = w /\ st.log[i].g = g}

GuardTimer(st, w, g) ==
    IF g = "mixer" THEN st.mixer_guard_timer[w] ELSE st.mic_guard_timer[w]

\* a step that arms guard g of window w: its toggle handler runs with state
\* true, from the user's toggle or from a restore
ArmEvent(w, g) ==
    \/ /\ w = Cur
       /\ g = "mixer"
       /\ ~adv.mixer_guard_switch[w]
       /\ UserToggleMixerGuard
    \/ /\ w = Cur
       /\ g = "mic"
       /\ ~adv.mic_switch[w]
       /\ UserToggleMicGuard
    \/ /\ adv.idle # <<>>
       /\ Head(adv.idle).w = w
       /\ Head(adv.idle).fn = "restore_" \o g \o "_guard"
       /\ RunIdleOf(Head(adv.idle).fn)

DisarmEvent(w, g) ==
    \/ /\ w = Cur
       /\ g = "mixer"
       /\ adv.mixer_guard_switch[w]
       /\ UserToggleMixerGuard
    \/ /\ w = Cur
       /\ g = "mic"
       /\ adv.mic_switch[w]
       /\ UserToggleMicGuard

\* C4: every step that arms a guard performs exactly one enforcement pass,
\* the immediate one; every step that disarms it performs none and leaves
\* no timer scheduled for it. So arming and then disarming before the first
\* tick gives exactly one pass in total and nothing scheduled.
C4_OneImmediatePass ==
    [][\A w \in Windows, g \in Guards :
        /\ ArmEvent(w, g) => Cardinality(PassesOf(adv', w, g)) = 1
        /\ DisarmEvent(w, g) =>
             PassesOf(adv', w, g) = {} /\ SourcesOf(adv', w, g) = {}]_vars

\* C5: at most one repeating enforcement timer is registered per guard
\* target.
C5_OneTimerPerGuard ==
    \A g \in Guards : Cardinality({s \in adv.sources : s.g = g}) <= 1

C7_NoPassAfterDestroy ==
    \A i \in DOMAIN adv.log : ~adv.destroyed[adv.log[i].w]

\* C8: in a window that is not destroyed and has no restore callback
\* pending, a guard whose active flag is true has a repeating timer
\* registered.
C8_ActiveHasTimer ==
    \A w \in Windows, g \in Guards :
        (/\ Alive
         /\ w <= adv.nwin
         /\ ~adv.destroyed[w]
         /\ ~Pending(adv, w, g)
         /\ GuardActive(adv, w, g)) => SourcesOf(adv, w, g) # {}

\* C9: every timer tick of an armed guard of a live window performs one
\* enforcement pass, and every pass issues set-mute (unmute) and then
\* set-volume for its target, in that order.
MuteThenVolume(cmds) ==
    /\ Len(cmds) = 2
    /\ cmds[1].cmd \in {"set-sink-mute", "set-source-mute"}
    /\ cmds[1].arg = 0
    /\ cmds[2].cmd \in {"set-sink-volume", "set-source-volume"}
    /\ cmds[2].dev = cmds[1].dev

C9_PassOnEveryTick ==
    /\ [](\A i \in DOMAIN adv.log : MuteThenVolume(adv.log[i].cmds))
    /\ [][\A w \in Windows, g \in Guards :
            (/\ ~adv.destroyed[w]
             /\ GuardActive(adv, w, g)
             /\ TimerTickAt(w, g)) => PassesOf(adv', w, g) # {}]_vars

\* C10: an arm, disarm, restore or tick of one guard leaves the other
\* guard's active flags, timer registrations and schedule unchanged: a step
\* that changes them for one guard is no such event of the other guard.
TimerState(st, w, g) ==
    IF GuardTimer(st, w, g) = None THEN "none"
    ELSE IF \E s \in SourcesOf(st, w, g) : s.id = GuardTimer(st, w, g)
         THEN "registered" ELSE "removed"

GuardView(st, g) ==
    [w \in Windows |->
        [active    |-> GuardActive(st, w, g),
         timer     |-> TimerState(st, w, g),
         scheduled |-> Cardinality(SourcesOf(st, w, g))]]

GuardEvent(g) ==
    \/ /\ g = "mixer"
       /\ UserToggleMixerGuard
    \/ /\ g = "mic"
       /\ UserToggleMicGuard
    \/ TimerTickOf(g)
    \/ RunIdleOf("restore_" \o g \o "_guard")

DeleteStep(t) ==
    /\ ~conn'.exited
    /\ conn.threads[t].target = "disconnect_thread"
    /\ conn.threads[t].pc = "join"
    /\ conn'.threads[t].pc = "done"

DisconnectInFlight(st) ==
    \E t \in DOMAIN st.threads :
        st.threads[t].target = "disconnect_thread" /\ is_alive(st, t)

\* C11: when disconnect_thread invokes the delete command, the shutdown flag
\* has been set, every monitor process has been signalled (none is running)
\* and the connect worker has terminated; and the status does not become
\* "Disconnected" or "Error" while a disconnect_thread has yet to return
\* from delete.
C11_DisconnectOrder ==
    [][/\ \A t \in DOMAIN conn.threads :
            DeleteStep(t) =>
                /\ conn.shutdown_flag
                /\ \A p \in DOMAIN conn.procs : conn.procs[p] # "running"
                /\ conn.monitor_thread # None =>
                        ~is_alive(conn, conn.monitor_thread)
       /\ (/\ ~conn'.exited
           /\ DisconnectInFlight(conn')
           /\ conn'.status # conn.status)
          => conn'.status \notin {"Disconnected", "Error"}]_vars

\* the main loop runs the posted callback finish_disconnection(success)
FinishDisconnectionStep(success) ==
    /\ ~conn.exited
    /\ ~conn'.exited
    /\ conn.idle # <<>>
    /\ Head(conn.idle).fn = "finish_disconnection"
    /\ Head(conn.idle).arg = success
    /\ conn'.idle = Tail(conn.idle)
    /\ ConnRunIdle

\* C12: after finish_disconnection(True) the state is Disconnected:
\* is_connected, is_connecting and shutdown_flag false, monitor_process
\* cleared, connect enabled. After finish_disconnection(False) it is Error:
\* status "Error", disconnect enabled, connect not enabled, is_connected as
\* before, is_connecting false.
C12_DisconnectEnds ==
    [][/\ FinishDisconnectionStep(TRUE) =>
            /\ conn'.status = "Disconnected"
            /\ ~conn'.is_connected
            /\ ~conn'.is_connecting
            /\ ~conn'.shutdown_flag
            /\ conn'.monitor_process = None
            /\ conn'.connect_sensitive
       /\ FinishDisconnectionStep(FALSE) =>
            /\ conn'.status = "Error"
            /\ conn'.disconnect_sensitive
            /\ ~conn'.connect_sensitive
            /\ conn'.is_connected = conn.is_connected
            /\ ~conn'.is_connecting]_vars

\* this step is worker t, running connect_thread, returning from the script
\* lookup or the create command without going on to spawn the monitor
CreateFails(t) ==
    /\ ~conn'.exited
    /\ conn.threads[t].target = "connect_thread"
    /\ conn.threads[t].pc = "run"
    /\ conn'.threads[t].pc = "done"

\* the main loop runs the posted callback finish_connection(success)
FinishConnectionStep(success) ==
    /\ ~conn.exited
    /\ ~conn'.exited
    /\ conn.idle # <<>>
    /\ Head(conn.idle).fn = "finish_connection"
    /\ Head(conn.idle).arg = success
    /\ conn'.idle = Tail(conn.idle)
    /\ ConnRunIdle

\* C13: a connect_thread whose create fails (missing script, non-zero exit
\* or exception) spawns no monitor process and posts an error dialog and
\* finish_connection(False); when that finish_connection has run the state
\* is Disconnected: is_connecting and is_connected false, connect enabled,
\* disconnect disabled.
C13_CreateFailure ==
    [][/\ \A t \in DOMAIN conn.threads :
            CreateFails(t) =>
                /\ conn'.procs = conn.procs
                /\ conn'.monitor_process = conn.monitor_process
                /\ Len(conn'.idle) = Len(conn.idle) + 2
                /\ conn'.idle[Len(conn.idle) + 1].fn = "show_error_dialog"
                /\ conn'.idle[Len(conn.idle) + 2].fn = "finish_connection"
                /\ conn'.idle[Len(conn.idle) + 2].arg = FALSE
       /\ (FinishConnectionStep(FALSE) /\ Head(conn.idle).at = "run") =>
                /\ conn'.status = "Disconnected"
                /\ ~conn'.is_connecting
                /\ ~conn'.is_connected
                /\ conn'.connect_sensitive
                /\ ~conn'.disconnect_sensitive]_vars

\* C14: on_connect_clicked invoked while is_connected is true starts no
\* worker (so create is not run) and leaves every field of the state as it
\* was.
C14_RejectedWhileConnected ==
    [][(conn.is_connected /\ ClickConnect) =>
            /\ conn'.threads = conn.threads
            /\ conn' = [conn EXCEPT !.rejected = conn'.rejected,
                                    !.unlocked = conn'.unlocked]]_vars

\* the workers of st whose transition has not yet posted its finish_*
\* callback: a connect_thread before its monitor loop, a disconnect_thread
\* before its end
WorkersInTransition(st) ==
    {t \in DOMAIN st.threads :
        \/ /\ st.threads[t].target = "connect_thread"
           /\ st.threads[t].pc \in {"run", "lock", "locked", "spawned"}
        \/ /\ st.threads[t].target = "disconnect_thread"
           /\ st.threads[t].pc \in {"run", "kill", "clear", "join"}}

\* the posted finish_* callbacks of st that end a transition and have not
\* run yet
FinishesPending(st) ==
    {i \in DOMAIN st.idle :
        /\ st.idle[i].fn \in {"finish_connection", "finish_disconnection"}
        /\ st.idle[i].at \in {"run", "locked", "spawned", "join"}}

\* C15: at most one transition (from its click handler to its finish_*
\* callback) is in flight at any time.
C15_OneTransitionInFlight ==
    ~conn.exited =>
        Cardinality(WorkersInTransition(conn))
            + Cardinality(FinishesPending(conn)) <= 1

\* C16: no step of a UI handler, of connect_thread or of disconnect_thread
\* reads or writes is_connected, is_connecting, shutdown_flag or
\* monitor_process without holding state_lock.
C16_SharedStateUnderLock ==
    ~conn.exited => conn.unlocked = {}

\* this step is worker t, running connect_thread, spawning the monitor
SpawnStep(t) ==
    /\ ~conn'.exited
    /\ conn.threads[t].target = "connect_thread"
    /\ conn.threads[t].pc = "locked"
    /\ Len(conn'.procs) = Len(conn.procs) + 1

\* C17: a connect worker spawns the monitor only while it holds state_lock
\* and shutdown_flag is clear, and once cleanup has returned no monitor
\* process spawned by this instance is left running unsignalled.
C17_NoMonitorSurvivesCleanup ==
    [][/\ \A t \in DOMAIN conn.threads :
            SpawnStep(t) => ~conn.shutdown_flag /\ conn.state_lock = t
       /\ (~conn.exited /\ conn'.exited) =>
            \A p \in DOMAIN conn'.procs : conn'.procs[p] # "running"]_vars

\* the mute button of either GUI, with the mixer present or not
MuteInit ==
    /\ max_history = MaxHistory
    /\ history = <<>>
    /\ pushed = <<>>
    /\ adv = AdvInitial(FALSE)
    /\ conn = ConnInitial(FALSE)
    /\ mon = MonInitial("")
    /\ pg = PgNone
    /\ listing = ListingNone
    /\ query = QueryNone
    /\ \E gui \in {"simple", "adv"}, enabled \in BOOLEAN :
         mute = MuteInitial(gui, enabled)

NextMute ==
    \/ OnToggleMute
    \/ MixerChanges

SpecMute == MuteInit /\ [][NextMute]_vars

\* get_available_sources with pactl ending in any way and writing any output
ListingInit ==
    /\ max_history = MaxHistory
    /\ history = <<>>
    /\ pushed = <<>>
    /\ adv = AdvInitial(FALSE)
    /\ conn = ConnInitial(FALSE)
    /\ mon = MonInitial("")
    /\ pg = PgNone
    /\ mute = MuteInitial("simple", FALSE)
    /\ \E stdout \in Outputs, outcome \in RunOutcomes :
         listing = [ListingNone EXCEPT !.stdout = stdout, !.outcome = outcome]
    /\ query = QueryNone

SpecListing == ListingInit /\ [][GetAvailableSources]_vars

\* get_mute_state with pactl ending in any way: only a pactl that exits
\* with status 0 has written a listing
QueryInit ==
    /\ max_history = MaxHistory
    /\ history = <<>>
    /\ pushed = <<>>
    /\ adv = AdvInitial(FALSE)
    /\ conn = ConnInitial(FALSE)
    /\ mon = MonInitial("")
    /\ pg = PgNone
    /\ mute = MuteInitial("simple", FALSE)
    /\ listing = ListingNone
    /\ \E lines \in Listings, outcome \in QueryOutcomes :
         /\ outcome # "ok" => lines = <<>>
         /\ query = [QueryNone EXCEPT !.lines = lines, !.outcome = outcome]

SpecQuery == QueryInit /\ [][GetMuteState]_vars

\* the simple GUI with its monitor shown and capturing
ConnMonInit ==
    /\ max_history = MaxHistory
    /\ history = <<>>
    /\ pushed = <<>>
    /\ adv = AdvInitial(FALSE)
    /\ pg = PgNone
    /\ mute = MuteInitial("simple", FALSE)
    /\ listing = ListingNone
    /\ query = QueryNone
    /\ \E mixer_exists \in BOOLEAN :
         /\ conn = ConnInitial(mixer_exists)
         /\ mon = start(MonInitial(IF mixer_exists THEN "AudioMixer_Virtual.monitor"
                                   ELSE ""),
                        [default |-> "default.monitor", popen |-> TRUE])

NextConnMon ==
    \/ ClickShown
    \/ ConnRunIdleShown
    \/ ConnectThreadStep
    \/ DisconnectThreadStep
    \/ MonitorProcessExit
    \/ ConnQuitShown
    \/ CaptureStalls

SpecConnMon == ConnMonInit /\ [][NextConnMon]_vars

\* ---------------------------------------------- claims: the audio monitor

AllZero(samples) == \A i \in DOMAIN samples : samples[i] = 0

\* C18: read_samples(n) returns exactly n samples whether the capture child
\* is absent, has written nothing, too little or enough, or the read
\* fails; with fewer than 2n bytes available every sample is 0; and the
\* call does not wait for data.
C18_ReadSamplesTotal ==
    /\ mon.ret.called =>
         /\ Len(mon.ret.samples) = mon.ret.n
         /\ mon.ret.avail < 2 * mon.ret.n => AllZero(mon.ret.samples)
         /\ ~mon.ret.blocked
    /\ \A n \in 0..MaxSamples, outcome \in ReadOutcomes :
         LET r == read_samples(mon, n, outcome)
         IN  /\ Len(r.samples) = n
             /\ (mon.process = None \/ Len(mon.pipe) < 2 * n)
                    => AllZero(r.samples)
             /\ ~r.blocked

\* a short read has just returned silence: some bytes were there, fewer
\* than the 2n asked for
C18_Witness ==
    /\ mon.ret.called
    /\ mon.ret.avail > 0
    /\ mon.ret.avail < 2 * mon.ret.n
    /\ Len(mon.ret.samples) = mon.ret.n
    /\ AllZero(mon.ret.samples)

\* C19: whatever start, stop, toggle, set_source and cleanup calls are made
\* on the monitor, at most one capture child is alive and at most one tick
\* timer is registered; start while monitoring changes nothing.
C19_OneChildOneTimer ==
    /\ Cardinality(mon.children) <= 1
    /\ Cardinality(mon.sources) <= 1
    /\ mon.is_monitoring => \A io \in StartIOs : start(mon, io) = mon

\* the monitor runs, with its child alive and its timer registered, on
\* the mixer's source, and ticks have filled the history
C19_Witness ==
    /\ mon.is_monitoring
    /\ mon.children = {mon.process}
    /\ mon.sources = {mon.timeout_id}
    /\ mon.device = "AudioMixer_Virtual.monitor"
    /\ Len(mon.history) = mon.max_history

\* C20: a step that changes the capture source of the monitor leaves the
\* waveform history empty, and every amplitude in the history was read
\* from the current source.
C20_SourceChangeClearsHistory ==
    [][/\ mon'.source # mon.source => mon'.history = <<>>
       /\ Len(mon'.origin) = Len(mon'.history)
       /\ \A i \in DOMAIN mon'.origin : mon'.origin[i] = mon'.source]_vars

\* the monitor runs on a source other than the one its last samples were
\* read from, and its history is empty
C20_Witness ==
    /\ mon.is_monitoring
    /\ mon.ret.called
    /\ mon.ret.device # ""
    /\ mon.ret.device # mon.source
    /\ mon.device = mon.source
    /\ mon.history = <<>>

\* a monitor without a session: no capture child and no timer
Inactive(st) ==
    /\ ~st.is_monitoring
    /\ st.process = None
    /\ st.children = {}
    /\ st.sources = {}

\* the state set_source leaves on a monitoring instance: one timer, and one
\* capture child, started for source_name after the old one was terminated
\* (the pid of the old child is free again and is the one Popen hands out)
Switched(st, source_name) ==
    /\ st.is_monitoring
    /\ st.source = source_name
    /\ st.device = source_name
    /\ st.process = 1
    /\ st.children = {st.process}
    /\ st.timeout_id # None
    /\ st.sources = {st.timeout_id}

\* C21: set_source on a monitoring instance always ends with
\* is_monitoring true, one tick timer and one capture process on the new
\* device; on a non-monitoring instance it leaves no process and no timer.
C21_SwitchKeepsActivity ==
    \A source_name \in Devices, io \in StartIOs :
        LET r == set_source(mon, source_name, io)
        IN  IF mon.is_monitoring THEN Switched(r, source_name)
            ELSE Inactive(r) /\ r.source = source_name

\* C22: whenever is_monitoring is false no tick timer is registered and no
\* capture process is owned; the history receives a push only in a step
\* taken while monitoring; stop on a stopped monitor changes nothing.
C22_StoppedIsQuiet ==
    [][/\ ~mon.is_monitoring => Inactive(mon)
       /\ ~mon'.is_monitoring => Inactive(mon') /\ mon'.timeout_id = None
       /\ stop(stop(mon')) = stop(mon')
       /\ ~mon'.is_monitoring => stop(mon') = mon'
       /\ (mon'.history # mon.history /\ mon'.history # <<>>)
            => mon.is_monitoring]_vars

\* the monitor has been stopped after ticks filled part of its history
C22_Witness ==
    /\ ~mon.is_monitoring
    /\ mon.ret.called
    /\ mon.history # <<>>
    /\ Inactive(mon)

\* C23: stop_capture always returns: the main thread is never left waiting
\* for a capture child that does not end.
C23_StopCaptureReturns ==
    ~mon.hung

\* ------------------------------------------ claims: teardown of processes

\* this step ends a call of kill_process_tree
KillTreeReturns ==
    /\ pg.gui = "simple"
    /\ pg'.pc = "idle"
    /\ pg.pc # "idle" \/ pg'.calls # pg.calls

\* C24: within each call of kill_process_tree a SIGKILL is sent only after
\* a SIGTERM to the group; no exception escapes, also in a second call on
\* the same process; and when a call returns no process of the group is
\* alive.
C24_KillProcessTree ==
    [][/\ pg'.gui = "simple" =>
            \A i \in DOMAIN pg'.sent :
                pg'.sent[i].sig = "KILL" =>
                    \E j \in 1..(i - 1) :
                        /\ pg'.sent[j].call = pg'.sent[i].call
                        /\ pg'.sent[j].sig = "TERM"
       /\ ~pg'.escaped
       /\ KillTreeReturns =>
            /\ pg'.leader # "running"
            /\ \A k \in DOMAIN pg'.kids : pg'.kids[k] = "dead"]_vars

\* C25: every monitor process the programs start is the leader of a new
\* process group, and every signal of its teardown goes to the group.
C25_OwnGroupTeardown ==
    pg.leader # "none" =>
        /\ pg.own_group
        /\ \A i \in DOMAIN pg.sent : pg.sent[i].scope = "group"

\* ---------------------------------------------------------------------
\* C26: no worker thread writes state owned by the UI directly: a step
\* of a monitor thread (its position changes) leaves the status flag
\* is_monitoring, which update_status_display shows, as it was; the
\* thread only posts callbacks to the main loop
C26_WorkersPostToUI ==
    [][\A t \in DOMAIN adv.threads :
          (t \in DOMAIN adv'.threads /\ adv'.threads[t].pc # adv.threads[t].pc)
              => adv'.is_monitoring = adv.is_monitoring]_vars

\* ---------------------------------------------------------------------
\* the steps of the one worker t running connect_thread
ConnectThreadOf(t) ==
    /\ ConnAlive
    /\ t \in DOMAIN conn.threads
    /\ conn.threads[t].target = "connect_thread"
    /\ ConnectEnabled(conn, t)
    /\ \E outcome \in ConnectOutcomes(conn, t) :
         ConnStep([connect_thread(ConnBegin(conn), t, outcome) EXCEPT
                     !.unlocked = connect_thread_unlocked(conn, t, outcome)])

\* the main loop and every worker thread are scheduled again and again
ConnFairness ==
    /\ WF_vars(ConnRunIdle)
    /\ WF_vars(DisconnectThreadStep)
    /\ \A t \in 1..MaxWorkers : WF_vars(ConnectThreadOf(t))

SpecConnFair == ConnInit /\ [][NextConn]_vars /\ ConnFairness

\* worker t runs connect_thread and is in its drain loop
InDrainLoop(t) ==
    /\ t \in DOMAIN conn.threads
    /\ conn.threads[t].target = "connect_thread"
    /\ conn.threads[t].pc = "loop"

\* C27: once shutdown_flag is set while a connect worker is in its drain
\* loop, that worker eventually leaves the loop and terminates (or the
\* program has exited, which ends the daemon workers)
C27_WorkerLeavesLoop ==
    \A t \in 1..MaxWorkers :
        (InDrainLoop(t) /\ conn.shutdown_flag)
            ~> (conn.exited \/ (t \in DOMAIN conn.threads /\ conn.threads[t].pc = "done"))

\* read_samples has no samples to give: no capture process, a read that
\* raises, or fewer bytes in the pipe than asked for (the child is slow or
\* has ended)
FailedRead(st, outcome) ==
    \/ st.process = None
    \/ outcome = "error"
    \/ Len(st.pipe) < 2 * st.buffer_size

\* C28: while the tick timer is registered, _update_waveform, whatever the
\* read meets, leaves the timer registered and the monitor active (it
\* returns True), and when the read gives no samples it appends exactly one
\* silence amplitude to the history.
C28_TickSurvivesFailedRead ==
    (mon.sources # {} /\ ~mon.hung) =>
        \A outcome \in ReadOutcomes :
            LET r == update_waveform(mon, outcome)
            IN  /\ r.sources = mon.sources
                /\ r.timeout_id = mon.timeout_id
                /\ r.is_monitoring = mon.is_monitoring
                /\ r.process = mon.process
                /\ FailedRead(mon, outcome) =>
                     r.history = PopFrontWhileOver(
                                    Append(mon.history, Rms(Zeros(mon.buffer_size))),
                                    mon.max_history)

\* a tick has met fewer bytes than it asked for and pushed silence, the
\* capture child has ended, and the timer is still registered
C28_Witness ==
    /\ mon.is_monitoring
    /\ mon.sources = {mon.timeout_id}
    /\ mon.process # None
    /\ mon.process \notin mon.children
    /\ mon.ret.called
    /\ mon.ret.avail < 2 * mon.ret.n
    /\ AllZero(mon.ret.samples)
    /\ mon.history # <<>>
    /\ mon.history[Len(mon.history)] = <<0, 1>>

\* ------------------------------------------------- claims: pactl calls

\* C29: a set-sink-mute that fails is reported and leaves is_muted and the
\* label of the mute button as they were; is_muted changes only in a step
\* whose set-sink-mute succeeded; once a set-sink-mute has succeeded,
\* is_muted is the value last applied.
C29_MuteTracksApplied ==
    [][/\ mute'.last \in {"failed", "timeout"} =>
            /\ mute'.is_muted = mute.is_muted
            /\ mute'.label = mute.label
            /\ mute'.reported
       /\ mute'.is_muted # mute.is_muted => mute'.last = "ok"
       /\ mute'.applied # "none" => mute'.is_muted = (mute'.applied = "muted")]_vars

\* C30: get_available_sources raises nothing; when pactl fails it returns
\* the empty sequence, and otherwise the second tab-separated field of
\* every non-empty line of the output that has two fields or more, in the
\* order of the lines.
C30_SourcesAreSecondFields ==
    listing.called =>
        /\ ~listing.raised
        /\ listing.outcome # "ok" => listing.sources = <<>>
        /\ listing.outcome = "ok" =>
             listing.sources = sources_of(split(listing.stdout, "\n"))

\* ------------------------------------------------ claims: the mute state

\* the line naming the device, the "Mute:" line and the marker, as the
\* if / elif chain of get_mute_state tells them apart
NamesDevice(line) == "AudioMixer_Virtual" \in line

IsMuteLine(line) == ~NamesDevice(line) /\ "Mute:" \in line

IsMarker(line) ==
    /\ ~NamesDevice(line)
    /\ ~IsMuteLine(line)
    /\ ("Sink #" \in line \/ "Source #" \in line)

\* there is a "Mute:" line with "yes" after the first line naming the
\* device, with no other "Mute:" line and no marker between the two
MutedInListing(lines) ==
    \E i \in DOMAIN lines, k \in DOMAIN lines :
        /\ NamesDevice(lines[i])
        /\ \A h \in 1..(i - 1) : ~NamesDevice(lines[h])
        /\ k > i
        /\ IsMuteLine(lines[k])
        /\ "yes" \in lines[k]
        /\ \A j \in (i + 1)..(k - 1) : ~IsMuteLine(lines[j]) /\ ~IsMarker(lines[j])

\* C31: get_mute_state returns true exactly when the first "Mute:" line
\* after the first line naming the virtual device, and before the next
\* "Sink #" / "Source #" marker, contains "yes"; it returns false when the
\* device is absent, its block has no "Mute:" line, or the command fails.
C31_MuteStateFromListing ==
    query.called =>
        query.ret = (query.outcome = "ok" /\ MutedInListing(query.lines))

\* the device's block has no "Mute:" line and the block of the next sink
\* has one with "yes": the call returned false
C31_Witness ==
    /\ query.called
    /\ ~query.ret
    /\ query.outcome = "ok"
    /\ Len(query.lines) = 3
    /\ query.lines[1] = {"AudioMixer_Virtual"}
    /\ query.lines[2] = {"Sink #"}
    /\ query.lines[3] = {"Mute:", "yes"}

\* ------------------------------------- claims: the connection, continued

\* the step shows the dialog that the except clause of connect_thread
\* posted from the loop that watches the monitor
ShowsConnectionError ==
    /\ conn.idle # <<>>
    /\ ~conn'.exited
    /\ conn'.idle = Tail(conn.idle)
    /\ IF Head(conn.idle).fn = "show_error_dialog"
       THEN Head(conn.idle).arg = "Connection error" /\ Head(conn.idle).at = "loop"
       ELSE FALSE

\* the step enters the error state of on_monitor_stopped_unexpectedly
EntersMonitorStopped ==
    conn'.unexpected > conn.unexpected

\* C32: a monitor that ended because disconnect_thread or cleanup killed it
\* is never reported: no step enters the "Monitor Stopped" state or shows a
\* "Connection error" dialog while the monitor process started last is one
\* the program killed.
C32_NoSpuriousReport ==
    [][(EntersMonitorStopped \/ ShowsConnectionError)
          => (conn.procs = <<>> \/ conn.procs[Len(conn.procs)] # "killed")]_vars

\* C33: every transition completes: whenever is_connecting is true it
\* eventually becomes false again, the workers and the main loop being
\* scheduled.
C33_TransitionCompletes ==
    conn.is_connecting ~> (conn.exited \/ ~conn.is_connecting)

\* a disconnection ended with the delete command failing: the worker is
\* done, finish_disconnection(False) has run and is_connecting is false
C33_Witness ==
    /\ ~conn.exited
    /\ ~conn.is_connecting
    /\ conn.status = "Error"
    /\ conn.idle = <<>>
    /\ \E t \in DOMAIN conn.threads :
          /\ conn.threads[t].target = "disconnect_thread"
          /\ conn.threads[t].pc = "done"

\* C34: whenever is_connected is true a monitor process handle is held
\* and a worker that drains the monitor exists
C34_ConnectedHasMonitor ==
    (~conn.exited /\ conn.is_connected) =>
        /\ conn.monitor_process # None
        /\ \E t \in DOMAIN conn.threads :
              /\ conn.threads[t].target = "connect_thread"
              /\ conn.threads[t].pc \in {"spawned", "loop"}

\* C35: no interleaving of the handlers with the workers deadlocks: no
\* thread is ever left waiting without end while it holds state_lock, so
\* the lock is always released again.
C35_LockReleased ==
    ~(mon.hung /\ conn.state_lock = MainThread)

\* ------------------------------- claims: the advanced GUI's monitor

\* the monitor processes that have not ended
LiveProcs(st) ==
    {p \in DOMAIN st.procs : st.procs[p] \in {"running", "signalled"}}

\* C36: at most one monitor process started by the application is alive,
\* and a monitor_process handle is overwritten or cleared only in a step
\* after which the process it referred to has ended.
C36_OneMonitorProcess ==
    [][/\ Cardinality(LiveProcs(adv')) <= 1
       /\ \A w \in Windows :
            (/\ ~adv'.exited
             /\ adv.monitor_process[w] # None
             /\ adv'.monitor_process[w] # adv.monitor_process[w])
                => adv'.procs[adv.monitor_process[w]] = "exited"]_vars

\* a monitor process that was sent SIGINT ends
SignalledExits ==
    /\ ProcExit
    /\ \E p \in DOMAIN adv.procs :
          adv.procs[p] = "signalled" /\ adv'.procs[p] = "exited"

\* the main loop and the monitor threads are scheduled again and again,
\* and a signalled monitor process ends
MonitorFairness ==
    /\ WF_vars(RunIdle)
    /\ WF_vars(MonitorSpawn)
    /\ WF_vars(MonitorEof)
    /\ WF_vars(MonitorFinally)
    /\ WF_vars(SignalledExits)

SpecMonitorFair == AdvInit /\ [][NextMonitor]_vars /\ MonitorFairness

\* C37: after on_stop_clicked the monitor process eventually ends: when
\* is_monitoring is false, eventually no monitor process is alive (unless
\* the monitor is started again or the program exits first).
C37_StopEndsMonitor ==
    (~adv.exited /\ ~adv.is_monitoring[Cur])
        ~> (adv.exited \/ adv.is_monitoring[Cur] \/ LiveProcs(adv) = {})

\* the step deletes the mixer of the current window
DeletesMixer ==
    /\ ~adv'.exited
    /\ adv'.nwin = adv.nwin
    /\ adv.mixer_exists[Cur]
    /\ ~adv'.mixer_exists[Cur]

\* C38: the mixer is never deleted while a monitor process is running:
\* a step that deletes it is taken with is_monitoring false and with no
\* monitor process alive.
C38_NoDeleteWhileMonitoring ==
    [][DeletesMixer => (~adv.is_monitoring[Cur] /\ LiveProcs(adv) = {})]_vars

\* ------------------------------------------ claims: the guards' timers

\* the stored timer id would be handed to GLib.source_remove and no source
\* with that id is registered any more
RemovesDeadSource(st, id) ==
    /\ id # None
    /\ ~\E s \in st.sources : s.id = id

\* C39: GLib.source_remove is never called on a timer id that is no longer
\* live.  cleanup, which runs whenever the window is closed, removes every
\* stored guard timer id that is not None: so in every state the ids stored
\* by a window that is not destroyed are None or live.
C39_RemovedOnlyWhileLive ==
    \A w \in Windows :
        (~adv.exited /\ ~adv.destroyed[w]) =>
            /\ ~RemovesDeadSource(adv, adv.mixer_guard_timer[w])
            /\ ~RemovesDeadSource(adv, adv.mic_guard_timer[w])

\* ------------------------------------------------------------------- C40
\* C40: every batch of samples read_samples returns that is not silence
\* was decoded from bytes that start at an even offset of the stream of
\* the capture child, so that each sample is one 16-bit frame parec
\* wrote; the bytes a short read takes and drops never leave the next
\* read at an odd offset.
C40_FramingPreserved ==
    (mon.ret.called /\ ~AllZero(mon.ret.samples)) => mon.ret.at = 0

====
